---- MODULE Spec2Model ----
(***************************************************************************)
(* Zenlings: the interactive event loop (main.rs), the verification worker *)
(* (main.rs, verify.rs), the debouncer and the watcher (watch.rs) and the  *)
(* application state (app_state.rs).                                       *)
(*                                                                         *)
(* Conventions.                                                            *)
(*  - Option<T> is a sequence of length at most one: None == <<>>,         *)
(*    Some(x) == <<x>>.                                                    *)
(*  - An Instant is kept as its age: the milliseconds elapsed since it was *)
(*    taken, saturated at MaxAge.  The code only ever reads an Instant     *)
(*    through now.duration_since(instant), so the age is all it observes;  *)
(*    the action Tick lets time pass and ages every stored Instant.        *)
(*  - The names of exercises are the numbers 1..NumExercises.              *)
(*  - The text of the progress file is the sequence of the members of its  *)
(*    JSON object, each a pair of a key and a JSON value; a file is that   *)
(*    text, whole or cut short.  A timestamp is the string of the clock's  *)
(*    reading: "now" in this session, "earlier" in a file found on disk.   *)
(***************************************************************************)
EXTENDS Integers, Sequences, FiniteSets, TLC

\* ---------------------------------------------------------------- bounds
NumExercises == 2
MaxLines == 2
MaxSaves == 2
LoopSaves == 1
LoopLines == 1
MaxAge == 300
TimeStep == 150
FineStep == 50
MaxHints == 1
MaxListed == 3
RingLines == 103
RingQueue == 2
MaxItems == 3
MaxEvents == 2
MaxPaths == 2
MaxNotify == 2

\* ------------------------------------------------------ program constants
\* Debouncer::new(300) in main
DebounceMs == 300
\* the cap of the output ring
OutputCap == 100

None == <<>>
Some(x) == <<x>>
IsSome(o) == o # <<>>
Unwrap(o) == o[1]

Min(a, b) == IF a < b THEN a ELSE b

VARIABLES
    \* --- Application Loop (main) and AppState
    current_index,      \* AppState.current_index (0-based)
    progress,           \* AppState.progress: [completed, current, hints_used]
    disk,               \* the progress file and its temp sibling on disk
    last_verify,        \* AppState.last_verify: Option<VerifyResult>
    verifying,          \* AppState.verifying
    output_buffer,      \* main: output_buffer
    pending_verify,     \* main: pending_verify
    debouncer,          \* main: debouncer
    loop_pc,            \* where the main thread is in its loop
    \* --- channels
    verify_ch,          \* verify_tx -> verify_rx: VerifyRequest
    result_ch,          \* result_tx -> result_rx: VerifyMessage
    watch_ch,           \* watch_tx -> watch_rx: WatchEvent
    \* --- verification worker thread
    simple_mode,        \* args.simple_verify
    wk_pc,              \* where the worker thread is
    wk_exercise,        \* the exercise of the Run being processed
    python_ok,          \* verification_worker: python_ok
    child,              \* the learner script's process and its two pipes
    out_ch,             \* output_tx -> output_rx of the current run
    fwd_pc,             \* the output_forwarder thread
    \* --- environment and history
    terminal,           \* the terminal's mode, and main's Terminal guard
    term_events,        \* terminal events waiting to be read (crossterm)
    last_poll,          \* what the last call of term::poll_key returned
    notify_ch,          \* notify_tx -> notify_rx: the platform watcher's reports
    final_message,      \* info.final_message
    pending_for,        \* history: the exercise whose save set pending_verify
    line_budget,        \* lines the learner's scripts may still write
    saves_left,         \* file-system events the environment may still raise
    submitted,          \* WorkerSpec: the names the client submitted, in order
    since_event,        \* time since the last should_process call (None: none
                        \* since construction or reset)
    last_return,        \* what the last should_process call returned
    last_result         \* what the Loop did with the last Result it received

vars == <<current_index, progress, disk, last_verify, verifying, output_buffer,
          pending_verify, debouncer, loop_pc, verify_ch, result_ch, watch_ch,
          simple_mode, wk_pc, wk_exercise, python_ok, child, out_ch, fwd_pc,
          line_budget, saves_left, submitted, since_event, last_return,
          last_result, terminal, term_events, last_poll, notify_ch,
          final_message, pending_for>>

loop_vars == <<current_index, progress, disk, last_verify, verifying,
               output_buffer, pending_verify, loop_pc, last_result, pending_for>>
worker_vars == <<wk_pc, wk_exercise, python_ok, child, out_ch, fwd_pc>>
debounce_vars == <<debouncer, since_event, last_return>>
channels == <<verify_ch, result_ch, watch_ch>>
input_vars == <<term_events, last_poll, notify_ch, final_message>>
env_vars == <<simple_mode, line_budget, terminal, input_vars>>

\* ------------------------------------------------------------- watch.rs
\* Instant::now(): an Instant of age 0
Now == 0
\* now.duration_since(instant)
duration_since(instant) == instant

\* Debouncer::new
Debouncer_new(debounce_ms) ==
    [last_event_time |-> None, debounce_duration |-> debounce_ms]

\* A should_process that leaves the timestamp alone when it returns false
should_process_keep(d) ==
    IF IsSome(d.last_event_time)
       /\ duration_since(Unwrap(d.last_event_time)) < d.debounce_duration
    THEN [d |-> d, ret |-> FALSE]
    ELSE [d |-> [d EXCEPT !.last_event_time = Some(Now)], ret |-> TRUE]

\* Debouncer::should_process: the debouncer after the call, and the value returned
should_process(d) ==
    IF IsSome(d.last_event_time)
       /\ duration_since(Unwrap(d.last_event_time)) < d.debounce_duration
    THEN [d |-> [d EXCEPT !.last_event_time = Some(Now)], ret |-> FALSE]
    ELSE [d |-> [d EXCEPT !.last_event_time = Some(Now)], ret |-> TRUE]

\* A ready_to_trigger that does not look at the elapsed time
ready_to_trigger_any(d) == IsSome(d.last_event_time)

\* Debouncer::ready_to_trigger
ready_to_trigger(d) ==
    IF IsSome(d.last_event_time)
    THEN duration_since(Unwrap(d.last_event_time)) >= d.debounce_duration
    ELSE FALSE

\* Debouncer::reset
reset(d) == [d EXCEPT !.last_event_time = None]

\* An Option<Instant> after dt more milliseconds
Aged(o, dt) == IF IsSome(o) THEN Some(Min(Unwrap(o) + dt, MaxAge)) ELSE None

\* Time passes: every stored Instant ages by dt
Tick(dt) ==
    /\ debouncer' = [debouncer EXCEPT !.last_event_time = Aged(@, dt)]
    /\ since_event' = Aged(since_event, dt)
    /\ \/ debouncer'.last_event_time # debouncer.last_event_time
       \/ since_event' # since_event
    /\ UNCHANGED <<loop_vars, worker_vars, env_vars, verify_ch, result_ch,
                   watch_ch, saves_left, submitted, last_return>>

\* ----------------------------------------------------------- exercise.rs
Names == 1..NumExercises

\* Exercise::from_entry for the entry of name i: the odd exercises have a hint
Exercise(i) ==
    [name |-> i,
     path |-> [dir |-> "exercises", stem |-> i, ext |-> "py"],
     hint |-> IF i % 2 = 1 THEN Some("hint") ELSE None,
     pipeline_name |-> i,
     verify_status |-> "completed"]

\* ExerciseEntry: the entries an info.toml can hold, with and without the
\* optional keys
ExerciseEntries ==
    [name : {"load1", "a"}, dir : {"01_loading", "d"},
     hint : {None, Some("hint")},
     pipeline_name : {None, Some("my_pipeline"), Some("")},
     verify_status : {None, Some("failed"), Some("completed")},
     verify_step_count : {None}]

\* The pack roots
PackRoots == {"/tmp/zenlings", "."}

\* A from_entry that always derives the pipeline name from the exercise name
from_entry_derived(entry, pack_root) ==
    [name |-> entry.name,
     dir |-> entry.dir,
     hint |-> entry.hint,
     path |-> <<pack_root, "exercises", entry.dir, entry.name \o ".py">>,
     solution_path |-> <<pack_root, "solutions", entry.dir, entry.name \o ".py">>,
     pipeline_name |-> entry.name \o "_pipeline",
     verify_status |-> IF IsSome(entry.verify_status)
                       THEN Unwrap(entry.verify_status) ELSE "completed",
     verify_step_count |-> entry.verify_step_count]

\* Exercise::from_entry; a path is the sequence of the components joined
from_entry(entry, pack_root) ==
    [name |-> entry.name,
     dir |-> entry.dir,
     hint |-> entry.hint,
     path |-> <<pack_root, "exercises", entry.dir, entry.name \o ".py">>,
     solution_path |-> <<pack_root, "solutions", entry.dir, entry.name \o ".py">>,
     pipeline_name |-> IF IsSome(entry.pipeline_name)
                       THEN Unwrap(entry.pipeline_name)
                       ELSE entry.name \o "_pipeline",
     verify_status |-> IF IsSome(entry.verify_status)
                       THEN Unwrap(entry.verify_status) ELSE "completed",
     verify_step_count |-> entry.verify_step_count]

\* Exercise::display_path
display_path(exercise) == exercise.dir \o "/" \o exercise.name \o ".py"

\* load_exercises: the catalog, in curriculum order
exercises == [i \in Names |-> Exercise(i)]

\* ---------------------------------------------------------- app_state.rs
\* now_iso: the reading of the wall clock, as the string stored in the record
now_iso == "now"

\* ProgressFile::new
ProgressFile_new ==
    [version |-> 1, completed |-> <<>>, current |-> None,
     hints_used |-> [n \in Names |-> 0],
     started_at |-> Some(now_iso), last_activity |-> Some(now_iso)]

\* A resolve_current_index that passes over a current exercise that is
\* already completed
resolve_current_index_skipping(p) ==
    IF /\ IsSome(p.current)
       /\ \E i \in 1..Len(exercises) : exercises[i].name = Unwrap(p.current)
       /\ \A k \in 1..Len(p.completed) : p.completed[k] # Unwrap(p.current)
    THEN (CHOOSE i \in 1..Len(exercises) : exercises[i].name = Unwrap(p.current)) - 1
    ELSE IF \E i \in 1..Len(exercises) :
                \A k \in 1..Len(p.completed) : p.completed[k] # exercises[i].name
         THEN (CHOOSE i \in 1..Len(exercises) :
                  /\ \A k \in 1..Len(p.completed) : p.completed[k] # exercises[i].name
                  /\ \A j \in 1..(i - 1) :
                        \E k \in 1..Len(p.completed) : p.completed[k] = exercises[j].name) - 1
         ELSE Len(exercises) - 1

\* AppState::resolve_current_index
resolve_current_index(p) ==
    IF IsSome(p.current) /\ \E i \in 1..Len(exercises) : exercises[i].name = Unwrap(p.current)
    THEN (CHOOSE i \in 1..Len(exercises) :
              /\ exercises[i].name = Unwrap(p.current)
              /\ \A j \in 1..(i - 1) : exercises[j].name # Unwrap(p.current)) - 1
    ELSE IF \E i \in 1..Len(exercises) :
                \A k \in 1..Len(p.completed) : p.completed[k] # exercises[i].name
         THEN (CHOOSE i \in 1..Len(exercises) :
                  /\ \A k \in 1..Len(p.completed) : p.completed[k] # exercises[i].name
                  /\ \A j \in 1..(i - 1) :
                        \E k \in 1..Len(p.completed) : p.completed[k] = exercises[j].name) - 1
         ELSE IF Len(exercises) = 0 THEN 0 ELSE Len(exercises) - 1

\* AppState::current_exercise
current_exercise == exercises[current_index + 1]

\* AppState::completed_count
completed_count(p) == Len(p.completed)

\* AppState::total_count
total_count == Len(exercises)

\* AppState::all_completed
all_completed(p) == completed_count(p) >= total_count

\* main, "Render current state": the view that is rendered
rendered_view(p, message) ==
    IF all_completed(p)
    THEN IF IsSome(message) THEN "complete" ELSE "main"
    ELSE "main"

\* AppState::is_completed
is_completed(p, exercise_name) ==
    \E k \in 1..Len(p.completed) : p.completed[k] = exercise_name

\* A mark_completed that appends without looking
mark_completed_again(p, exercise_name) ==
    [p EXCEPT !.completed = Append(@, exercise_name)]

\* A mark_completed that records nothing
mark_completed_never(p, exercise_name) == p

\* AppState::mark_completed
mark_completed(p, exercise_name) ==
    IF ~is_completed(p, exercise_name)
    THEN [p EXCEPT !.completed = Append(@, exercise_name)]
    ELSE p

\* A next that does not stop at the last exercise
next_unbounded(idx) == idx + 1

\* AppState::next: the new current_index
next(idx) == IF idx < Len(exercises) - 1 THEN idx + 1 ELSE idx

\* AppState::prev: the new current_index
prev(idx) == IF idx > 0 THEN idx - 1 ELSE idx

\* AppState::set_current_by_name: Ok with the new current_index, or Err
set_current_by_name(idx, name) ==
    IF \E i \in 1..Len(exercises) : exercises[i].name = name
    THEN [ok |-> TRUE,
          index |-> (CHOOSE i \in 1..Len(exercises) :
                        /\ exercises[i].name = name
                        /\ \A j \in 1..(i - 1) : exercises[j].name # name) - 1]
    ELSE [ok |-> FALSE, index |-> idx]

\* JSON values: null, and a number, string, array or object
JNull == [null |-> TRUE]
JValue(x) == [null |-> FALSE, v |-> x]

\* A serialisation that writes every optional field as null
option_to_json_null(o) == JNull

\* Serialize for Option<String>
option_to_json(o) == IF IsSome(o) THEN JValue(Unwrap(o)) ELSE JNull

\* serde_json::to_string_pretty(&self.progress): the members of the object in
\* the order of the struct's fields; the map of hints becomes an object with
\* one member per entry
to_json(p) ==
    << <<"version", JValue(p.version)>>,
       <<"completed", JValue(p.completed)>>,
       <<"current", option_to_json(p.current)>>,
       <<"hints_used",
         JValue({<<n, p.hints_used[n]>> : n \in {m \in Names : p.hints_used[m] > 0}})>>,
       <<"started_at", option_to_json(p.started_at)>>,
       <<"last_activity", option_to_json(p.last_activity)>> >>

\* A file holding the whole serialisation of p, and one holding a part of it
WholeFile(p) == [whole |-> TRUE, data |-> to_json(p)]
PartFile(p) == [whole |-> FALSE, data |-> to_json(p)]

\* The member of a JSON object with this key, if there is one
get(members, key) ==
    IF \E i \in 1..Len(members) : members[i][1] = key
    THEN Some(members[CHOOSE i \in 1..Len(members) : members[i][1] = key][2])
    ELSE None

\* Deserialize for Option<String>: a missing member and null are both None
option_from_json(o) ==
    IF IsSome(o) /\ ~Unwrap(o).null THEN Some(Unwrap(o).v) ELSE None

\* serde_json::from_str::<ProgressFile>: Err on a text that is cut short and on
\* one without `version`; `completed` and `hints_used` default when missing
from_json(file) ==
    IF ~file.whole THEN [ok |-> FALSE]
    ELSE IF ~IsSome(get(file.data, "version")) \/ Unwrap(get(file.data, "version")).null
    THEN [ok |-> FALSE]
    ELSE [ok |-> TRUE,
          value |->
            [version |-> Unwrap(get(file.data, "version")).v,
             completed |-> IF IsSome(get(file.data, "completed"))
                           THEN Unwrap(get(file.data, "completed")).v ELSE <<>>,
             current |-> option_from_json(get(file.data, "current")),
             hints_used |->
                [n \in Names |->
                    IF IsSome(get(file.data, "hints_used"))
                       /\ \E e \in Unwrap(get(file.data, "hints_used")).v : e[1] = n
                    THEN (CHOOSE e \in Unwrap(get(file.data, "hints_used")).v : e[1] = n)[2]
                    ELSE 0],
             started_at |-> option_from_json(get(file.data, "started_at")),
             last_activity |-> option_from_json(get(file.data, "last_activity"))]]

\* AppState::load_progress: the progress file is read when it exists, and only
\* it; without one the record is a fresh one
load_progress(d) ==
    IF IsSome(d.canonical) THEN from_json(Unwrap(d.canonical))
    ELSE [ok |-> TRUE, value |-> ProgressFile_new]

\* A save that writes the progress file in place, without a temp file
save_progress_in_place(p, idx, d, outcome) ==
    LET p2 == [p EXCEPT !.last_activity = Some(now_iso),
                        !.current = Some(exercises[idx + 1].name)]
    IN  CASE outcome = "ok" ->
                [progress |-> p2, disk |-> [d EXCEPT !.canonical = Some(WholeFile(p2))], ok |-> TRUE]
          [] outcome = "create_failed" ->
                [progress |-> p2, disk |-> d, ok |-> FALSE]
          [] outcome = "write_failed" ->
                [progress |-> p2, disk |-> [d EXCEPT !.canonical = Some(PartFile(p2))], ok |-> FALSE]
          [] outcome = "rename_failed" ->
                [progress |-> p2, disk |-> [d EXCEPT !.canonical = Some(WholeFile(p2))], ok |-> FALSE]

\* The ways one call of save_progress can end: Ok, or an error (or the death of
\* the process) at the creation of the temp file, while it is written, or
\* before it is renamed
SaveOutcomes == {"ok", "create_failed", "write_failed", "rename_failed"}

\* AppState::save_progress: the progress record and the disk after the call, and
\* whether it returned Ok.  The temp file is created (truncated), written and
\* synced, then renamed over the progress file.
save_progress(p, idx, d, outcome) ==
    LET p2 == [p EXCEPT !.last_activity = Some(now_iso),
                        !.current = Some(exercises[idx + 1].name)]
    IN  CASE outcome = "ok" ->
                [progress |-> p2, disk |-> [canonical |-> Some(WholeFile(p2)), tmp |-> None], ok |-> TRUE]
          [] outcome = "create_failed" ->
                [progress |-> p2, disk |-> d, ok |-> FALSE]
          [] outcome = "write_failed" ->
                [progress |-> p2, disk |-> [d EXCEPT !.tmp = Some(PartFile(p2))], ok |-> FALSE]
          [] outcome = "rename_failed" ->
                [progress |-> p2, disk |-> [d EXCEPT !.tmp = Some(WholeFile(p2))], ok |-> FALSE]

\* A record_hint_used that counts the hint for every exercise
record_hint_used_everywhere(p, exercise_name) ==
    [p EXCEPT !.hints_used = [n \in Names |-> @[n] + 1]]

\* hints::record_hint_used
record_hint_used(p, exercise_name) ==
    [p EXCEPT !.hints_used[exercise_name] = @ + 1]

\* ------------------------------------------------------------- verify.rs
\* VerifyResult::passed
passed(r) == r.outcome = "Passed"

\* What the second execution of the script (run_python_capture) can do
CaptureOutcomes == {"spawn_failed", "exit_ok", "exit_failed"}
\* What the status tool (run_zenml_status_check) can do, and the status
\* parse_zenml_status finds in its output
ToolOutcomes == {"spawn_failed", "exit_failed", "exit_ok"}

\* What the status tool prints: a text that is JSON or not, with or without a
\* root `items` array, whose items have a string `status` or none
Listing(items) == [json |-> TRUE, items |-> Some(items)]
ToolOutputs ==
    {Listing(<<>>), Listing(<<[status |-> Some("completed")]>>),
     Listing(<<[status |-> Some("running")]>>),
     Listing(<<[status |-> Some("running")], [status |-> Some("completed")]>>),
     Listing(<<[status |-> None], [status |-> Some("completed")]>>),
     [json |-> TRUE, items |-> None], [json |-> FALSE, items |-> None]}

\* A parse that takes a text it cannot read for a listing of a completed run
parse_zenml_status_lenient(out) ==
    IF ~out.json THEN Some("completed")
    ELSE IF ~IsSome(out.items) THEN None
    ELSE IF Len(Unwrap(out.items)) = 0 THEN None
    ELSE Unwrap(out.items)[1].status

\* A parse that takes the status of the first item that has one
parse_zenml_status_any(out) ==
    IF ~out.json THEN None
    ELSE IF ~IsSome(out.items) THEN None
    ELSE IF \A i \in 1..Len(Unwrap(out.items)) : Unwrap(out.items)[i].status = None
    THEN None
    ELSE Unwrap(out.items)[CHOOSE i \in 1..Len(Unwrap(out.items)) :
                              /\ Unwrap(out.items)[i].status # None
                              /\ \A j \in 1..(i - 1) :
                                    Unwrap(out.items)[j].status = None].status

\* parse_zenml_status: value.get("items")?.get(0)?.get("status")?.as_str()
parse_zenml_status(out) ==
    IF ~out.json THEN None
    ELSE IF ~IsSome(out.items) THEN None
    ELSE IF Len(Unwrap(out.items)) = 0 THEN None
    ELSE Unwrap(out.items)[1].status

\* The statuses run_zenml_status_check can return
Statuses == {parse_zenml_status(out) : out \in ToolOutputs}

\* verify_exercise: Ok(result) or Err
verify_exercise(exercise, capture, tool, status) ==
    IF capture = "spawn_failed" THEN [ok |-> FALSE]
    ELSE IF capture = "exit_failed" THEN
        [ok |-> TRUE,
         result |-> [exercise_name |-> exercise.name, outcome |-> "Failed",
                     python_exit_ok |-> FALSE, zenml_checked |-> FALSE,
                     message |-> "Python script failed"]]
    ELSE IF tool = "spawn_failed" THEN [ok |-> FALSE]
    ELSE IF tool = "exit_failed" THEN
        [ok |-> TRUE,
         result |-> [exercise_name |-> exercise.name, outcome |-> "Failed",
                     python_exit_ok |-> TRUE, zenml_checked |-> TRUE,
                     message |-> "ZenML status check failed"]]
    ELSE IF IsSome(status) /\ Unwrap(status) = exercise.verify_status THEN
        [ok |-> TRUE,
         result |-> [exercise_name |-> exercise.name, outcome |-> "Passed",
                     python_exit_ok |-> TRUE, zenml_checked |-> TRUE,
                     message |-> "Pipeline " \o exercise.verify_status]]
    ELSE
        [ok |-> TRUE,
         result |-> [exercise_name |-> exercise.name, outcome |-> "Failed",
                     python_exit_ok |-> TRUE, zenml_checked |-> TRUE,
                     message |-> "Pipeline status '"
                                    \o (IF IsSome(status) THEN Unwrap(status) ELSE "unknown")
                                    \o "', expected '" \o exercise.verify_status \o "'"]]

\* A worker that consults the status tool in simple mode too
build_result_checked(exercise, ok, simple, capture, tool, status) ==
    IF ~ok THEN
        [exercise_name |-> exercise.name, outcome |-> "Failed",
         python_exit_ok |-> FALSE, zenml_checked |-> FALSE,
         message |-> "Python script failed"]
    ELSE LET v == verify_exercise(exercise, capture, tool, status)
         IN  IF v.ok THEN v.result
             ELSE [exercise_name |-> exercise.name, outcome |-> "Failed",
                   python_exit_ok |-> TRUE, zenml_checked |-> FALSE,
                   message |-> "Verification error"]

\* verification_worker, "Build result": the VerifyResult of a run
build_result(exercise, ok, simple, capture, tool, status) ==
    IF simple THEN
        [exercise_name |-> exercise.name,
         outcome |-> IF ok THEN "Passed" ELSE "Failed",
         python_exit_ok |-> ok, zenml_checked |-> FALSE,
         message |-> IF ok THEN "Exercise completed successfully"
                     ELSE "Python script failed"]
    ELSE IF ~ok THEN
        [exercise_name |-> exercise.name, outcome |-> "Failed",
         python_exit_ok |-> FALSE, zenml_checked |-> FALSE,
         message |-> "Python script failed"]
    ELSE LET v == verify_exercise(exercise, capture, tool, status)
         IN  IF v.ok THEN v.result
             ELSE [exercise_name |-> exercise.name, outcome |-> "Failed",
                   python_exit_ok |-> TRUE, zenml_checked |-> FALSE,
                   message |-> "Verification error"]

\* What a run made of the script and of the status tool (history, not program
\* data): whether the streamed child was spawned, how the second execution of
\* the script by verify_exercise ended, how the status tool ended and what it
\* printed; "none" for what was not started
external_calls(spawned, ok, simple, capture, tool, out) ==
    IF simple \/ ~ok
    THEN [spawned |-> spawned, capture |-> "none", tool |-> "none", out |-> Listing(<<>>)]
    ELSE IF capture # "exit_ok"
    THEN [spawned |-> spawned, capture |-> capture, tool |-> "none", out |-> Listing(<<>>)]
    ELSE IF tool # "exit_ok"
    THEN [spawned |-> spawned, capture |-> capture, tool |-> tool, out |-> Listing(<<>>)]
    ELSE [spawned |-> spawned, capture |-> capture, tool |-> tool, out |-> out]

\* ----------------------------------------------- main.rs: the two threads
\* The process is alive until main returns: Ok(()) after the clean-up ("done")
\* or an error propagated by `?`, from Terminal::enter ("enter_failed") or from
\* the loop ("failed")
ProcessAlive == loop_pc \notin {"done", "failed", "enter_failed"}

\* VerifyRequest
Run(exercise) == [type |-> "Run", exercise |-> exercise]
Stop == [type |-> "Stop"]

\* OutputLine; `run` names the Run the line belongs to (history, not program data)
Stdout(text) == [kind |-> "Stdout", text |-> text]
Stderr(text) == [kind |-> "Stderr", text |-> text]
Done(success) == [kind |-> "Done", success |-> success]

\* VerifyMessage; `run` names the Run the message belongs to and `calls` is
\* what that run started beyond the streamed execution (history only)
Output(line, name) == [type |-> "Output", line |-> line, run |-> name]
Result(r, name, calls) ==
    [type |-> "Result", result |-> r, run |-> name, calls |-> calls]

\* What a learner script writes to one pipe: k lines, the first `bad` of which
\* are not valid UTF-8
PipeLines(name, stream, k, bad) ==
    [i \in 1..k |-> [text |-> [exercise |-> name, stream |-> stream, n |-> i],
                     utf8 |-> i > bad]]

\* No Run is being processed
NoExercise == [name |-> 0]

NoChild ==
    [state |-> "none", success |-> FALSE, stdout |-> <<>>, stderr |-> <<>>,
     out_pos |-> 0, err_pos |-> 0]

\* The reader threads of run_python_streaming end at end of file
stdout_reader_done ==
    child.state = "exited" /\ child.out_pos = Len(child.stdout)
stderr_reader_done ==
    child.state = "exited" /\ child.err_pos = Len(child.stderr)
readers_done ==
    child.state = "none" \/ (stdout_reader_done /\ stderr_reader_done)

\* Some Sender of the run's output channel is still alive: output_tx, owned by
\* run_python_streaming until it returns, or the clone of a reader thread
output_senders_alive ==
    \/ wk_pc \in {"spawn", "wait", "join_readers"}
    \/ ~readers_done

\* A worker that takes the newest request
recv_newest(ch) == ch[Len(ch)]

\* `for request in rx`: the request the worker takes off its channel
recv(ch) == Head(ch)

\* A worker that takes Stop for a request to skip
WorkerRecvPastStop ==
    /\ ProcessAlive
    /\ wk_pc = "recv"
    /\ verify_ch # <<>>
    /\ LET request == recv(verify_ch)
       IN  /\ verify_ch' = Tail(verify_ch)
           /\ IF request.type = "Run"
              THEN /\ wk_pc' = "spawn"
                   /\ wk_exercise' = request.exercise
                   /\ child' = NoChild
                   /\ out_ch' = <<>>
                   /\ fwd_pc' = "running"
                   /\ python_ok' = FALSE
              ELSE UNCHANGED <<wk_pc, wk_exercise, child, out_ch, fwd_pc, python_ok>>
    /\ UNCHANGED <<loop_vars, debounce_vars, env_vars, result_ch, watch_ch,
                   saves_left, submitted>>

\* verification_worker: take the next request; a Run creates the output channel
\* and spawns the output_forwarder
WorkerRecv ==
    /\ ProcessAlive
    /\ wk_pc = "recv"
    /\ verify_ch # <<>>
    /\ LET request == recv(verify_ch)
       IN  /\ verify_ch' = Tail(verify_ch)
           /\ IF request.type = "Run"
              THEN /\ wk_pc' = "spawn"
                   /\ wk_exercise' = request.exercise
                   /\ child' = NoChild
                   /\ out_ch' = <<>>
                   /\ fwd_pc' = "running"
                   /\ python_ok' = FALSE
              ELSE /\ wk_pc' = "stopped"
                   /\ UNCHANGED <<wk_exercise, child, out_ch, fwd_pc, python_ok>>
    /\ UNCHANGED <<loop_vars, debounce_vars, env_vars, result_ch, watch_ch,
                   saves_left, submitted>>

\* A worker that gives the run up when the child cannot be spawned
WorkerSpawnFailedSilent ==
    /\ ProcessAlive
    /\ wk_pc = "spawn"
    /\ wk_pc' = "recv"
    /\ wk_exercise' = NoExercise
    /\ fwd_pc' = "none"
    /\ UNCHANGED <<loop_vars, debounce_vars, env_vars, verify_ch, result_ch,
                   watch_ch, saves_left, submitted, python_ok, child, out_ch>>

\* run_python_streaming: Command::spawn fails, the function returns Err and
\* drops output_tx; unwrap_or(false)
WorkerSpawnFailed ==
    /\ ProcessAlive
    /\ wk_pc = "spawn"
    /\ python_ok' = FALSE
    /\ wk_pc' = "join_forwarder"
    /\ UNCHANGED <<loop_vars, debounce_vars, env_vars, verify_ch, result_ch,
                   watch_ch, saves_left, submitted, wk_exercise, child, out_ch,
                   fwd_pc>>

\* run_python_streaming: the child is spawned with both pipes and the two
\* reader threads are started
WorkerSpawn ==
    /\ ProcessAlive
    /\ wk_pc = "spawn"
    /\ \E k \in 0..line_budget, j \in 0..1, bad \in 0..1 :
          /\ k + j <= line_budget
          /\ bad <= k
          /\ line_budget' = line_budget - (k + j)
          /\ child' = [state |-> "running", success |-> FALSE,
                       stdout |-> PipeLines(wk_exercise.name, "stdout", k, bad),
                       stderr |-> PipeLines(wk_exercise.name, "stderr", j, 0),
                       out_pos |-> 0, err_pos |-> 0]
    /\ wk_pc' = "wait"
    /\ UNCHANGED <<loop_vars, debounce_vars, simple_mode, terminal, input_vars, verify_ch,
                   result_ch, watch_ch, saves_left, submitted, wk_exercise,
                   python_ok, out_ch, fwd_pc>>

\* The learner script exits
ChildExit ==
    /\ ProcessAlive
    /\ child.state = "running"
    /\ \E success \in BOOLEAN :
          child' = [child EXCEPT !.state = "exited", !.success = success]
    /\ UNCHANGED <<loop_vars, debounce_vars, env_vars, verify_ch, result_ch,
                   watch_ch, saves_left, submitted, wk_pc, wk_exercise,
                   python_ok, out_ch, fwd_pc>>

\* stdout_handle: one turn of `for line in reader.lines()`; a line that is not
\* Ok is skipped
ReadStdout ==
    /\ ProcessAlive
    /\ child.state # "none"
    /\ child.out_pos < Len(child.stdout)
    /\ LET line == child.stdout[child.out_pos + 1]
       IN  out_ch' = IF line.utf8 THEN Append(out_ch, Stdout(line.text)) ELSE out_ch
    /\ child' = [child EXCEPT !.out_pos = @ + 1]
    /\ UNCHANGED <<loop_vars, debounce_vars, env_vars, verify_ch, result_ch,
                   watch_ch, saves_left, submitted, wk_pc, wk_exercise,
                   python_ok, fwd_pc>>

\* stderr_handle: one turn of `for line in reader.lines()`
ReadStderr ==
    /\ ProcessAlive
    /\ child.state # "none"
    /\ child.err_pos < Len(child.stderr)
    /\ LET line == child.stderr[child.err_pos + 1]
       IN  out_ch' = IF line.utf8 THEN Append(out_ch, Stderr(line.text)) ELSE out_ch
    /\ child' = [child EXCEPT !.err_pos = @ + 1]
    /\ UNCHANGED <<loop_vars, debounce_vars, env_vars, verify_ch, result_ch,
                   watch_ch, saves_left, submitted, wk_pc, wk_exercise,
                   python_ok, fwd_pc>>

\* run_python_streaming: child.wait() returns the exit status
WorkerWait ==
    /\ ProcessAlive
    /\ wk_pc = "wait"
    /\ child.state = "exited"
    /\ wk_pc' = "join_readers"
    /\ UNCHANGED <<loop_vars, debounce_vars, env_vars, verify_ch, result_ch,
                   watch_ch, saves_left, submitted, wk_exercise, python_ok,
                   child, out_ch, fwd_pc>>

\* run_python_streaming: child.wait() fails, the function returns Err and drops
\* output_tx; the reader threads are left running; unwrap_or(false)
WorkerWaitFailed ==
    /\ ProcessAlive
    /\ wk_pc = "wait"
    /\ python_ok' = FALSE
    /\ wk_pc' = "join_forwarder"
    /\ UNCHANGED <<loop_vars, debounce_vars, env_vars, verify_ch, result_ch,
                   watch_ch, saves_left, submitted, wk_exercise, child, out_ch,
                   fwd_pc>>

\* run_python_streaming: both readers are joined, Done(success) is sent and the
\* function returns Ok(success)
WorkerJoinReaders ==
    /\ ProcessAlive
    /\ wk_pc = "join_readers"
    /\ stdout_reader_done /\ stderr_reader_done
    /\ out_ch' = Append(out_ch, Done(child.success))
    /\ python_ok' = child.success
    /\ wk_pc' = "join_forwarder"
    /\ UNCHANGED <<loop_vars, debounce_vars, env_vars, verify_ch, result_ch,
                   watch_ch, saves_left, submitted, wk_exercise, child, fwd_pc>>

\* output_forwarder: one turn of `for line in output_rx`; it breaks after Done
Forward ==
    /\ ProcessAlive
    /\ fwd_pc = "running"
    /\ out_ch # <<>>
    /\ LET line == Head(out_ch)
       IN  /\ result_ch' = Append(result_ch, Output(line, wk_exercise.name))
           /\ fwd_pc' = IF line.kind = "Done" THEN "done" ELSE "running"
    /\ out_ch' = Tail(out_ch)
    /\ UNCHANGED <<loop_vars, debounce_vars, env_vars, verify_ch, watch_ch,
                   saves_left, submitted, wk_pc, wk_exercise, python_ok, child>>

\* output_forwarder: the channel is empty and every Sender is dropped, so the
\* iteration over output_rx ends
ForwardClosed ==
    /\ ProcessAlive
    /\ fwd_pc = "running"
    /\ out_ch = <<>>
    /\ ~output_senders_alive
    /\ fwd_pc' = "done"
    /\ UNCHANGED <<loop_vars, debounce_vars, env_vars, verify_ch, result_ch,
                   watch_ch, saves_left, submitted, wk_pc, wk_exercise,
                   python_ok, child, out_ch>>

\* verification_worker: the forwarder is joined, the result is built (in full
\* mode by verify_exercise, which runs the script again and then the status
\* tool) and sent; the locals of the run go out of scope
WorkerSendResult ==
    /\ ProcessAlive
    /\ wk_pc = "join_forwarder"
    /\ fwd_pc = "done"
    /\ \E calls \in {external_calls(child.state # "none", python_ok, simple_mode,
                                       capture, tool, out) :
                        capture \in CaptureOutcomes, tool \in ToolOutcomes,
                        out \in ToolOutputs} :
          result_ch' = Append(result_ch,
              Result(build_result(wk_exercise, python_ok, simple_mode,
                                  calls.capture, calls.tool,
                                  parse_zenml_status(calls.out)),
                     wk_exercise.name, calls))
    /\ wk_pc' = "recv"
    /\ wk_exercise' = NoExercise
    /\ python_ok' = FALSE
    /\ child' = NoChild
    /\ fwd_pc' = "none"
    /\ UNCHANGED <<loop_vars, debounce_vars, env_vars, verify_ch, watch_ch,
                   saves_left, submitted, out_ch>>

WorkerStep ==
    \/ WorkerRecv
    \/ WorkerSpawnFailed
    \/ WorkerSpawn
    \/ ChildExit
    \/ ReadStdout
    \/ ReadStderr
    \/ WorkerWait
    \/ WorkerWaitFailed
    \/ WorkerJoinReaders
    \/ Forward
    \/ ForwardClosed
    \/ WorkerSendResult

\* --------------------------------------------------- term.rs: Terminal
\* The terminal as the shell left it, and no Terminal value
Terminal_none == [raw |-> FALSE, cursor_hidden |-> FALSE, guard |-> FALSE]

\* The ways Terminal::enter can end: Ok, an error of enable_raw_mode, or an
\* error of execute!(Hide, Clear, MoveTo) before or after the cursor is hidden
EnterOutcomes == {"ok", "raw_failed", "execute_failed_early", "execute_failed_late"}

\* Terminal::enter: the terminal after the call, and whether it returned Ok
\* (the guard exists only then)
Terminal_enter(t, outcome) ==
    CASE outcome = "ok" ->
            [ok |-> TRUE,
             terminal |-> [raw |-> TRUE, cursor_hidden |-> TRUE, guard |-> TRUE]]
      [] outcome = "raw_failed" ->
            [ok |-> FALSE, terminal |-> t]
      [] outcome = "execute_failed_early" ->
            [ok |-> FALSE, terminal |-> [t EXCEPT !.raw = TRUE]]
      [] outcome = "execute_failed_late" ->
            [ok |-> FALSE,
             terminal |-> [t EXCEPT !.raw = TRUE, !.cursor_hidden = TRUE]]

\* Drop for Terminal, run when main returns with the guard in scope: the
\* cursor is shown and raw mode disabled
Terminal_drop(t) ==
    IF t.guard THEN [raw |-> FALSE, cursor_hidden |-> FALSE, guard |-> FALSE] ELSE t

\* ------------------------------------------- term.rs: the progress bar
\* render_main: `let bar_width = 30usize`
bar_width == 30

\* render_main, "Progress bar": filled and empty are usize.  When filled
\* exceeds bar_width, `bar_width - filled` panics in a build with overflow
\* checks and wraps to 2^64 - (filled - bar_width) in one without, where
\* "░".repeat(empty) then panics on the capacity; `empty` is given as the
\* difference in the integers
progress_bar(p) ==
    LET completed == completed_count(p)
        total == total_count
        filled == IF total > 0 THEN (completed * bar_width) \div total ELSE 0
    IN  [filled |-> filled, empty |-> bar_width - filled,
         panic |-> filled > bar_width]

\* ------------------------------------------ term.rs: the keyboard poll
\* Key codes: the characters of the key table, `c`, an upper-case and another
\* character, Enter, Esc and another named key
KeyCodes == {"q", "h", "n", "p", "l", "r", "s", "o", "c", "Q", "x",
             "Enter", "Esc", "Tab"}

\* KeyModifiers: a set of flags
KeyModifiers == SUBSET {"CONTROL", "SHIFT"}

\* Event::Key(KeyEvent) and the events that are no key
KeyEvent(code, modifiers) == [type |-> "Key", code |-> code, modifiers |-> modifiers]
TermEvents ==
    {KeyEvent(code, modifiers) : code \in KeyCodes, modifiers \in KeyModifiers}
        \cup {[type |-> "Resize"], [type |-> "Mouse"]}

\* A key_to_action without the test for Ctrl-C
key_to_action_by_code(key) ==
    CASE key.code = "q" -> "Quit"
      [] key.code = "h" -> "Hint"
      [] key.code = "n" -> "Next"
      [] key.code = "p" -> "Prev"
      [] key.code = "l" -> "List"
      [] key.code = "r" -> "Rerun"
      [] key.code = "s" -> "Solution"
      [] key.code = "o" -> "Open"
      [] key.code \in {"Enter", "Esc"} -> "Continue"
      [] OTHER -> "None"

\* key_to_action
key_to_action(key) ==
    IF "CONTROL" \in key.modifiers /\ key.code = "c"
    THEN "Quit"
    ELSE CASE key.code = "q" -> "Quit"
           [] key.code = "h" -> "Hint"
           [] key.code = "n" -> "Next"
           [] key.code = "p" -> "Prev"
           [] key.code = "l" -> "List"
           [] key.code = "r" -> "Rerun"
           [] key.code = "s" -> "Solution"
           [] key.code = "o" -> "Open"
           [] key.code \in {"Enter", "Esc"} -> "Continue"
           [] OTHER -> "None"

\* No call of poll_key yet
NoPoll == [called |-> FALSE, ok |-> FALSE, value |-> None]

\* What event::poll and event::read can do
PollOutcomes == {"ok", "poll_failed", "read_failed"}

\* poll_key: the Result it returns and the events left unread.  event::poll
\* says whether an event is waiting, event::read takes the first one
poll_key(events, outcome) ==
    IF outcome = "poll_failed"
    THEN [ret |-> [called |-> TRUE, ok |-> FALSE, value |-> None], events |-> events]
    ELSE IF events = <<>>
    THEN [ret |-> [called |-> TRUE, ok |-> TRUE, value |-> None], events |-> events]
    ELSE IF outcome = "read_failed"
    THEN [ret |-> [called |-> TRUE, ok |-> FALSE, value |-> None], events |-> events]
    ELSE IF Head(events).type = "Key"
    THEN [ret |-> [called |-> TRUE, ok |-> TRUE,
                   value |-> Some(key_to_action(Head(events)))],
          events |-> Tail(events)]
    ELSE [ret |-> [called |-> TRUE, ok |-> TRUE, value |-> None],
          events |-> Tail(events)]

\* ------------------------------------------------- main.rs: the main loop
\* A push that never evicts
push_output_unbounded(buf, s) == Append(buf, s)

\* output_buffer.push(s), then remove(0) when it holds more than the cap
push_output(buf, s) ==
    IF Len(Append(buf, s)) > OutputCap THEN Tail(Append(buf, s)) ELSE Append(buf, s)

\* A Loop that takes every Result for the current exercise's
result_is_any(r) == TRUE

\* `result.exercise_name == state.current_exercise().name`
result_is_current(r) == r.exercise_name = current_exercise.name

\* The loop is running: the main thread has not left `loop { .. }`
LoopRunning == loop_pc \in {"worker_msgs", "watch_events", "poll_key", "modal"}

\* The locals of main that only the loop reads are dead once the loop is left
LoopLocalsDead ==
    /\ current_index' = 0
    /\ progress' = ProgressFile_new
    /\ last_verify' = None
    /\ verifying' = FALSE
    /\ output_buffer' = <<>>
    /\ pending_verify' = FALSE
    /\ debouncer' = Debouncer_new(DebounceMs)
    /\ since_event' = None
    /\ last_result' = "none"
    /\ watch_ch' = <<>>
    /\ saves_left' = 0
    /\ pending_for' = 0

\* main returns Err: the process exits, and its threads and channels with it;
\* what stays is the disk
ProcessGone ==
    /\ LoopLocalsDead
    /\ verify_ch' = <<>>
    /\ result_ch' = <<>>
    /\ wk_pc' = "stopped"
    /\ wk_exercise' = NoExercise
    /\ python_ok' = FALSE
    /\ child' = NoChild
    /\ out_ch' = <<>>
    /\ fwd_pc' = "none"
    /\ UNCHANGED <<simple_mode, line_budget, input_vars, submitted, last_return>>

\* An error leaves the loop by `?`: main returns Err and `_terminal` is dropped
MainFailed ==
    /\ loop_pc' = "failed"
    /\ terminal' = Terminal_drop(terminal)
    /\ ProcessGone

\* main: `let _terminal = term::Terminal::enter()?`
TerminalEnter ==
    /\ loop_pc = "enter"
    /\ \E outcome \in EnterOutcomes :
          LET entered == Terminal_enter(terminal, outcome)
          IN  /\ terminal' = entered.terminal
              /\ IF entered.ok
                 THEN /\ loop_pc' = "worker_msgs"
                      /\ UNCHANGED <<current_index, progress, last_verify,
                                     verifying, output_buffer, pending_verify,
                                     debouncer, since_event, last_result,
                                     channels, saves_left, simple_mode,
                                     line_budget, input_vars, worker_vars,
                                     submitted, last_return, pending_for>>
                 ELSE /\ loop_pc' = "enter_failed"
                      /\ ProcessGone
    /\ UNCHANGED disk

LoopRest == <<env_vars, worker_vars, submitted, last_return>>
LoopRestAndHistory == <<LoopRest, pending_for>>

\* `while let Ok(msg) = result_rx.try_recv()`: the channel is empty
LoopWorkerDrained ==
    /\ loop_pc = "worker_msgs"
    /\ result_ch = <<>>
    /\ loop_pc' = "watch_events"
    /\ last_result' = "none"
    /\ UNCHANGED <<current_index, progress, disk, last_verify, verifying,
                   output_buffer, pending_verify, debouncer, since_event,
                   channels, saves_left, LoopRestAndHistory>>

\* VerifyMessage::Output
LoopRecvOutput ==
    /\ loop_pc = "worker_msgs"
    /\ result_ch # <<>>
    /\ Head(result_ch).type = "Output"
    /\ LET line == Head(result_ch).line
       IN  output_buffer' = IF line.kind \in {"Stdout", "Stderr"}
                            THEN push_output(output_buffer, line.text)
                            ELSE output_buffer
    /\ result_ch' = Tail(result_ch)
    /\ UNCHANGED <<current_index, progress, disk, last_verify, verifying,
                   pending_verify, debouncer, since_event, loop_pc, last_result,
                   verify_ch, watch_ch, saves_left, LoopRestAndHistory>>

\* VerifyMessage::Result; save_progress()? returns from main when it fails
LoopRecvResult ==
    /\ loop_pc = "worker_msgs"
    /\ result_ch # <<>>
    /\ Head(result_ch).type = "Result"
    /\ LET result == Head(result_ch).result
       IN  IF result_is_current(result)
           THEN IF passed(result)
                THEN \E outcome \in SaveOutcomes :
                        LET saved == save_progress(
                                mark_completed(progress, result.exercise_name),
                                current_index, disk, outcome)
                        IN  /\ disk' = saved.disk
                            /\ IF saved.ok
                               THEN /\ progress' = saved.progress
                                    /\ last_verify' = Some(result)
                                    /\ verifying' = FALSE
                                    /\ last_result' = "applied"
                                    /\ result_ch' = Tail(result_ch)
                                    /\ UNCHANGED <<current_index, output_buffer,
                                                   pending_verify, debouncer,
                                                   since_event, loop_pc, verify_ch,
                                                   watch_ch, saves_left, LoopRestAndHistory>>
                               ELSE MainFailed
                ELSE /\ last_verify' = Some(result)
                     /\ verifying' = FALSE
                     /\ last_result' = "applied"
                     /\ result_ch' = Tail(result_ch)
                     /\ UNCHANGED <<current_index, progress, disk, output_buffer,
                                    pending_verify, debouncer, since_event, loop_pc,
                                    verify_ch, watch_ch, saves_left, LoopRestAndHistory>>
           ELSE /\ last_result' = IF passed(result) THEN "dropped_passed"
                                  ELSE "dropped_failed"
                /\ result_ch' = Tail(result_ch)
                /\ UNCHANGED <<current_index, progress, disk, last_verify, verifying,
                               output_buffer, pending_verify, debouncer, since_event,
                               loop_pc, verify_ch, watch_ch, saves_left, LoopRestAndHistory>>

\* One WatchEvent: a FileChanged for the current exercise's path is recorded
LoopRecvWatch ==
    /\ loop_pc = "watch_events"
    /\ watch_ch # <<>>
    /\ LET event == Head(watch_ch)
       IN  IF event.type = "FileChanged" /\ event.path = current_exercise.path
           THEN /\ debouncer' = should_process(debouncer).d
                /\ since_event' = Some(0)
                /\ pending_verify' = TRUE
                /\ pending_for' = current_exercise.name
           ELSE UNCHANGED <<debouncer, since_event, pending_verify, pending_for>>
    /\ watch_ch' = Tail(watch_ch)
    /\ UNCHANGED <<current_index, progress, disk, last_verify, verifying,
                   output_buffer, loop_pc, last_result, verify_ch, result_ch,
                   saves_left, LoopRest>>

\* `while let Ok(event) = watch_rx.try_recv()` finds the channel empty, then
\* "Trigger verification after debounce"
LoopTrigger ==
    /\ loop_pc = "watch_events"
    /\ watch_ch = <<>>
    /\ IF pending_verify /\ ready_to_trigger(debouncer) /\ ~verifying
       THEN /\ verifying' = TRUE
            /\ last_verify' = None
            /\ output_buffer' = <<>>
            /\ verify_ch' = Append(verify_ch, Run(current_exercise))
            /\ pending_verify' = FALSE
            /\ debouncer' = reset(debouncer)
            /\ since_event' = None
            /\ pending_for' = 0
       ELSE UNCHANGED <<verifying, last_verify, output_buffer, verify_ch,
                        pending_verify, debouncer, since_event, pending_for>>
    /\ loop_pc' = "poll_key"
    /\ UNCHANGED <<current_index, progress, disk, last_result, result_ch,
                   watch_ch, saves_left, LoopRest>>

\* Action::Quit => break
LoopQuit ==
    /\ loop_pc = "poll_key"
    /\ loop_pc' = "shutdown"
    /\ LoopLocalsDead
    /\ UNCHANGED <<disk, verify_ch, result_ch, LoopRest>>

\* Action::Hint: with a hint, the counter is incremented and progress saved
\* before the modal (the counter is capped at MaxHints); without, a modal
LoopHint ==
    /\ loop_pc = "poll_key"
    /\ IF IsSome(current_exercise.hint)
       THEN /\ progress.hints_used[current_exercise.name] < MaxHints
            /\ \E outcome \in SaveOutcomes :
                  LET saved == save_progress(
                          record_hint_used(progress, current_exercise.name),
                          current_index, disk, outcome)
                  IN  /\ disk' = saved.disk
                      /\ IF saved.ok
                         THEN /\ progress' = saved.progress
                              /\ loop_pc' = "modal"
                              /\ UNCHANGED <<current_index, last_verify, verifying,
                                             output_buffer, pending_verify, debouncer,
                                             since_event, last_result, channels,
                                             saves_left, LoopRestAndHistory>>
                         ELSE MainFailed
       ELSE /\ loop_pc' = "modal"
            /\ UNCHANGED <<current_index, progress, disk, last_verify, verifying,
                           output_buffer, pending_verify, debouncer, since_event,
                           last_result, channels, saves_left, LoopRestAndHistory>>

\* A Next or Prev that leaves last_verify as it is
LoopMoveKeepingResult(idx) ==
    /\ loop_pc = "poll_key"
    /\ \E outcome \in SaveOutcomes :
          LET saved == save_progress(progress, idx, disk, outcome)
          IN  /\ disk' = saved.disk
              /\ IF saved.ok
                 THEN /\ current_index' = idx
                      /\ progress' = saved.progress
                      /\ output_buffer' = <<>>
                      /\ loop_pc' = "worker_msgs"
                      /\ UNCHANGED <<last_verify, verifying, pending_verify,
                                     debouncer, since_event, last_result, channels,
                                     saves_left, LoopRestAndHistory>>
                 ELSE MainFailed

\* A Next or Prev that saves and clears only when the index moved
LoopMoveIfMoved(idx) ==
    /\ loop_pc = "poll_key"
    /\ IF idx = current_index
       THEN /\ loop_pc' = "worker_msgs"
            /\ UNCHANGED <<current_index, progress, disk, last_verify, verifying,
                           output_buffer, pending_verify, debouncer, since_event,
                           last_result, channels, saves_left, LoopRestAndHistory>>
       ELSE \E outcome \in SaveOutcomes :
              LET saved == save_progress(progress, idx, disk, outcome)
              IN  /\ disk' = saved.disk
                  /\ IF saved.ok
                     THEN /\ current_index' = idx
                          /\ progress' = saved.progress
                          /\ output_buffer' = <<>>
                          /\ last_verify' = None
                          /\ loop_pc' = "worker_msgs"
                          /\ UNCHANGED <<verifying, pending_verify, debouncer,
                                         since_event, last_result, channels,
                                         saves_left, LoopRestAndHistory>>
                     ELSE MainFailed

\* Action::Next and Action::Prev, idx being state.next() or state.prev()
LoopMove(idx) ==
    /\ loop_pc = "poll_key"
    /\ \E outcome \in SaveOutcomes :
          LET saved == save_progress(progress, idx, disk, outcome)
          IN  /\ disk' = saved.disk
              /\ IF saved.ok
                 THEN /\ current_index' = idx
                      /\ progress' = saved.progress
                      /\ output_buffer' = <<>>
                      /\ last_verify' = None
                      /\ loop_pc' = "worker_msgs"
                      /\ UNCHANGED <<verifying, pending_verify, debouncer,
                                     since_event, last_result, channels,
                                     saves_left, LoopRestAndHistory>>
                 ELSE MainFailed

\* Action::Next
LoopNext == LoopMove(next(current_index))

\* Action::Prev
LoopPrev == LoopMove(prev(current_index))

\* A Rerun that does not look at `verifying`
LoopRerunAlways ==
    /\ loop_pc = "poll_key"
    /\ verifying' = TRUE
    /\ last_verify' = None
    /\ output_buffer' = <<>>
    /\ verify_ch' = Append(verify_ch, Run(current_exercise))
    /\ loop_pc' = "worker_msgs"
    /\ UNCHANGED <<current_index, progress, disk, pending_verify, debouncer,
                   since_event, last_result, result_ch, watch_ch, saves_left,
                   LoopRestAndHistory>>

\* Action::Rerun
LoopRerun ==
    /\ loop_pc = "poll_key"
    /\ IF ~verifying
       THEN /\ verifying' = TRUE
            /\ last_verify' = None
            /\ output_buffer' = <<>>
            /\ verify_ch' = Append(verify_ch, Run(current_exercise))
       ELSE UNCHANGED <<verifying, last_verify, output_buffer, verify_ch>>
    /\ loop_pc' = "worker_msgs"
    /\ UNCHANGED <<current_index, progress, disk, pending_verify, debouncer,
                   since_event, last_result, result_ch, watch_ch, saves_left,
                   LoopRestAndHistory>>

\* Action::List, Action::Solution, and Action::Open when the file cannot be
\* opened: a modal is rendered and wait_for_continue is entered
LoopShowModal ==
    /\ loop_pc = "poll_key"
    /\ loop_pc' = "modal"
    /\ UNCHANGED <<current_index, progress, disk, last_verify, verifying,
                   output_buffer, pending_verify, debouncer, since_event,
                   last_result, channels, saves_left, LoopRestAndHistory>>

\* Action::Continue, Action::None, Action::Open when the file opens, and a poll
\* that times out or reads an event that is no key
LoopNoAction ==
    /\ loop_pc = "poll_key"
    /\ loop_pc' = "worker_msgs"
    /\ UNCHANGED <<current_index, progress, disk, last_verify, verifying,
                   output_buffer, pending_verify, debouncer, since_event,
                   last_result, channels, saves_left, LoopRestAndHistory>>

\* wait_for_continue: Continue or Quit ends the modal
LoopModalDismiss ==
    /\ loop_pc = "modal"
    /\ loop_pc' = "worker_msgs"
    /\ UNCHANGED <<current_index, progress, disk, last_verify, verifying,
                   output_buffer, pending_verify, debouncer, since_event,
                   last_result, channels, saves_left, LoopRestAndHistory>>

\* "Clean up": verify_tx.send(Stop)
LoopSendStop ==
    /\ loop_pc = "shutdown"
    /\ verify_ch' = Append(verify_ch, Stop)
    /\ loop_pc' = "join"
    /\ UNCHANGED <<current_index, progress, disk, last_verify, verifying,
                   output_buffer, pending_verify, debouncer, since_event,
                   last_result, result_ch, watch_ch, saves_left, LoopRestAndHistory>>

\* verify_handle.join(), then main returns Ok(()) and `_terminal` is dropped
LoopJoin ==
    /\ loop_pc = "join"
    /\ wk_pc = "stopped"
    /\ loop_pc' = "done"
    /\ result_ch' = <<>>
    /\ terminal' = Terminal_drop(terminal)
    /\ UNCHANGED <<current_index, progress, disk, last_verify, verifying,
                   output_buffer, pending_verify, debouncer, since_event,
                   last_result, verify_ch, watch_ch, saves_left, simple_mode,
                   line_budget, input_vars, worker_vars, submitted,
                   last_return, pending_for>>

\* One tick of the loop, a step at a time
LoopTick ==
    \/ LoopWorkerDrained
    \/ LoopRecvOutput
    \/ LoopRecvResult
    \/ LoopRecvWatch
    \/ LoopTrigger

LoopKey ==
    \/ LoopQuit
    \/ LoopHint
    \/ LoopNext
    \/ LoopPrev
    \/ LoopRerun
    \/ LoopShowModal
    \/ LoopNoAction

LoopExit ==
    \/ LoopSendStop
    \/ LoopJoin

\* ------------------------------------------------- watch.rs: the watcher
\* WatchEvent
FileChanged(path) == [type |-> "FileChanged", path |-> path]
WatchError == [type |-> "Error"]

RECURSIVE forward_first_path(_), forward_paths(_)

\* The paths the platform watcher reports: the exercise files and a file that
\* is no learner script
WatchedPaths ==
    {exercises[i].path : i \in 1..Len(exercises)}
        \cup {[dir |-> "exercises", stem |-> 1, ext |-> "txt"]}

\* notify::EventKind, with the sub-kinds of Modify and Create
EventKinds ==
    {<<"Modify", "Data">>, <<"Modify", "Metadata">>, <<"Create", "File">>,
     <<"Access", "Close">>, <<"Remove", "File">>, <<"Any">>}

\* notify::Result<Event> as the main loop's specifications draw it: an Event
\* having a kind and one path
NotifyResults ==
    [ok : {TRUE}, kind : EventKinds, paths : {<<path>> : path \in WatchedPaths}]
        \cup {[ok |-> FALSE]}

\* path.extension().map(|e| e == "py").unwrap_or(false)
\* (a path without extension has ext "")
is_py(path) == path.ext # "" /\ path.ext = "py"

\* A `for path in event.paths` that stops at the first learner script
forward_first_path(paths) ==
    IF paths = <<>> THEN <<>>
    ELSE IF is_py(Head(paths))
         THEN <<FileChanged(Head(paths))>>
         ELSE forward_first_path(Tail(paths))

\* `for path in event.paths`: what it sends
forward_paths(paths) ==
    IF paths = <<>> THEN <<>>
    ELSE IF is_py(Head(paths))
         THEN <<FileChanged(Head(paths))>> \o forward_paths(Tail(paths))
         ELSE forward_paths(Tail(paths))

\* process_notify_events, one turn of `for res in notify_rx`: what it sends
process_notify_event(res) ==
    IF res.ok
    THEN IF res.kind[1] \in {"Modify", "Create"}
         THEN forward_paths(res.paths)
         ELSE <<>>
    ELSE <<WatchError>>

\* The platform watcher reports an event and the watcher thread forwards it
WatcherEvent ==
    /\ LoopRunning
    /\ saves_left > 0
    /\ saves_left' = saves_left - 1
    /\ \E res \in NotifyResults :
          watch_ch' = watch_ch \o process_notify_event(res)
    /\ UNCHANGED <<loop_vars, debounce_vars, env_vars, worker_vars, verify_ch,
                   result_ch, submitted>>

\* -------------------------------------------------------- specifications
\* AppState::load on a pack without progress file, the channels, the worker
\* thread blocked on its channel, Debouncer::new(300)
Init ==
    /\ progress = ProgressFile_new
    /\ current_index = resolve_current_index(ProgressFile_new)
    /\ disk = [canonical |-> None, tmp |-> None]
    /\ last_verify = None
    /\ verifying = FALSE
    /\ output_buffer = <<>>
    /\ pending_verify = FALSE
    /\ debouncer = Debouncer_new(DebounceMs)
    /\ loop_pc = "enter"
    /\ verify_ch = <<>>
    /\ result_ch = <<>>
    /\ watch_ch = <<>>
    /\ simple_mode \in BOOLEAN
    /\ wk_pc = "recv"
    /\ wk_exercise = NoExercise
    /\ python_ok = FALSE
    /\ child = NoChild
    /\ out_ch = <<>>
    /\ fwd_pc = "none"
    /\ line_budget = LoopLines
    /\ saves_left = LoopSaves
    /\ submitted = <<>>
    /\ since_event = None
    /\ last_return = None
    /\ last_result = "none"
    /\ terminal = Terminal_none
    /\ term_events = <<>>
    /\ last_poll = NoPoll
    /\ notify_ch = <<>>
    /\ final_message = None
    /\ pending_for = 0

Next ==
    \/ TerminalEnter
    \/ LoopTick
    \/ LoopKey
    \/ LoopModalDismiss
    \/ LoopExit
    \/ WorkerStep
    \/ WatcherEvent
    \/ Tick(TimeStep)

Spec == Init /\ [][Next]_vars

\* The loop keeps ticking, the worker's threads and the child keep running, and
\* time passes; the learner and the file system owe nothing
Fairness ==
    /\ WF_vars(LoopTick \/ LoopKey)
    /\ WF_vars(WorkerStep)
    /\ WF_vars(Tick(TimeStep))

FairSpec == Spec /\ Fairness

\* The steps the worker's threads take when they are scheduled; the exit of
\* the child and the failures of spawn and wait are not theirs to take
WorkerProgress ==
    \/ WorkerRecv
    \/ WorkerSpawn
    \/ ReadStdout
    \/ ReadStderr
    \/ WorkerWait
    \/ WorkerJoinReaders
    \/ Forward
    \/ ForwardClosed
    \/ WorkerSendResult

\* The program with its threads scheduled, and a child that exits or not
QuitFairSpec == Spec /\ WF_vars(LoopExit) /\ WF_vars(WorkerProgress)

\* The same start, with more file-system events to come
NoRerunInit ==
    /\ progress = ProgressFile_new
    /\ current_index = resolve_current_index(ProgressFile_new)
    /\ disk = [canonical |-> None, tmp |-> None]
    /\ last_verify = None
    /\ verifying = FALSE
    /\ output_buffer = <<>>
    /\ pending_verify = FALSE
    /\ debouncer = Debouncer_new(DebounceMs)
    /\ loop_pc = "worker_msgs"
    /\ verify_ch = <<>>
    /\ result_ch = <<>>
    /\ watch_ch = <<>>
    /\ simple_mode \in BOOLEAN
    /\ wk_pc = "recv"
    /\ wk_exercise = NoExercise
    /\ python_ok = FALSE
    /\ child = NoChild
    /\ out_ch = <<>>
    /\ fwd_pc = "none"
    /\ line_budget = LoopLines
    /\ saves_left = MaxSaves
    /\ submitted = <<>>
    /\ since_event = None
    /\ last_return = None
    /\ last_result = "none"
    /\ terminal = Terminal_enter(Terminal_none, "ok").terminal
    /\ term_events = <<>>
    /\ last_poll = NoPoll
    /\ notify_ch = <<>>
    /\ final_message = None
    /\ pending_for = 0

\* The learner never presses Rerun
NextNoRerun ==
    \/ LoopTick
    \/ LoopQuit
    \/ LoopHint
    \/ LoopNext
    \/ LoopPrev
    \/ LoopShowModal
    \/ LoopNoAction
    \/ LoopModalDismiss
    \/ LoopExit
    \/ WorkerStep
    \/ WatcherEvent
    \/ Tick(TimeStep)

NoRerunSpec ==
    /\ NoRerunInit
    /\ [][NextNoRerun]_vars
    /\ WF_vars(LoopTick \/ LoopQuit \/ LoopHint \/ LoopNext \/ LoopPrev
                  \/ LoopShowModal \/ LoopNoAction)
    /\ WF_vars(WorkerStep)
    /\ WF_vars(Tick(TimeStep))

\* --- the worker alone, with a client that submits each exercise at most once
\* and Stop at most once (0 in `submitted`), in any order, and never takes a
\* message off the outbound channel: result_ch is all the worker ever sent
WorkerInit ==
    /\ progress = ProgressFile_new
    /\ current_index = 0
    /\ disk = [canonical |-> None, tmp |-> None]
    /\ last_verify = None
    /\ verifying = FALSE
    /\ output_buffer = <<>>
    /\ pending_verify = FALSE
    /\ debouncer = Debouncer_new(DebounceMs)
    /\ loop_pc = "client"
    /\ verify_ch = <<>>
    /\ result_ch = <<>>
    /\ watch_ch = <<>>
    /\ simple_mode \in BOOLEAN
    /\ wk_pc = "recv"
    /\ wk_exercise = NoExercise
    /\ python_ok = FALSE
    /\ child = NoChild
    /\ out_ch = <<>>
    /\ fwd_pc = "none"
    /\ line_budget = MaxLines
    /\ saves_left = 0
    /\ submitted = <<>>
    /\ since_event = None
    /\ last_return = None
    /\ last_result = "none"
    /\ terminal = Terminal_none
    /\ term_events = <<>>
    /\ last_poll = NoPoll
    /\ notify_ch = <<>>
    /\ final_message = None
    /\ pending_for = 0

InSeq(x, q) == \E i \in 1..Len(q) : q[i] = x

ClientRun ==
    /\ loop_pc = "client"
    /\ \E e \in Names :
          /\ ~InSeq(e, submitted)
          /\ verify_ch' = Append(verify_ch, Run(exercises[e]))
          /\ submitted' = Append(submitted, e)
    /\ UNCHANGED <<loop_vars, debounce_vars, env_vars, worker_vars, result_ch,
                   watch_ch, saves_left>>

ClientStop ==
    /\ loop_pc = "client"
    /\ ~InSeq(0, submitted)
    /\ verify_ch' = Append(verify_ch, Stop)
    /\ submitted' = Append(submitted, 0)
    /\ UNCHANGED <<loop_vars, debounce_vars, env_vars, worker_vars, result_ch,
                   watch_ch, saves_left>>

WorkerNext ==
    \/ ClientRun
    \/ ClientStop
    \/ WorkerStep

WorkerSpec == WorkerInit /\ [][WorkerNext]_vars

WorkerFairSpec == WorkerSpec /\ WF_vars(WorkerStep)

\* --- AppState alone: main loads it from any progress file a launch can find,
\* then calls its methods in any order; a failed call ends the process, and the
\* next launch loads again
\* An identifier that names no exercise of the catalog
StaleId == NumExercises + 1

\* The `completed` lists a progress file can hold: none, some or all of the
\* exercises, stale identifiers, duplicates
CompletedChoices == UNION {[1..k -> 1..StaleId] : k \in 0..MaxListed}

\* The progress files a launch can find: written by an earlier session, with
\* hints taken and no start time, or with a start time and no hints
ProgressFiles ==
    {WholeFile([version |-> 1, completed |-> c, current |-> cur,
                hints_used |-> [n \in Names |-> IF used /\ n = 1 THEN 1 ELSE 0],
                started_at |-> IF used THEN None ELSE Some("earlier"),
                last_activity |-> Some("earlier")]) :
        c \in CompletedChoices, cur \in {None} \cup {Some(n) : n \in 1..StaleId},
        used \in BOOLEAN}

\* info.final_message: configured or not
FinalMessages == {None, Some("final")}

\* No method of AppState has been called since the launch
NoCall == [op |-> "none"]

AppStateInit ==
    /\ progress = ProgressFile_new
    /\ current_index = 0
    /\ disk \in [canonical : {None} \cup {Some(f) : f \in ProgressFiles}, tmp : {None}]
    /\ last_verify = None
    /\ verifying = FALSE
    /\ output_buffer = <<>>
    /\ pending_verify = FALSE
    /\ debouncer = Debouncer_new(DebounceMs)
    /\ loop_pc = "launch"
    /\ verify_ch = <<>>
    /\ result_ch = <<>>
    /\ watch_ch = <<>>
    /\ simple_mode = TRUE
    /\ wk_pc = "recv"
    /\ wk_exercise = NoExercise
    /\ python_ok = FALSE
    /\ child = NoChild
    /\ out_ch = <<>>
    /\ fwd_pc = "none"
    /\ line_budget = 0
    /\ saves_left = LoopSaves
    /\ submitted = <<>>
    /\ since_event = None
    /\ last_return = NoCall
    /\ last_result = "none"
    /\ terminal = Terminal_none
    /\ term_events = <<>>
    /\ last_poll = NoPoll
    /\ notify_ch = <<>>
    /\ final_message \in FinalMessages
    /\ pending_for = 0

AppStateRest ==
    <<last_verify, verifying, output_buffer, pending_verify, pending_for, debouncer,
      channels, env_vars, worker_vars, submitted, since_event, last_result>>

\* The process exits with an error: what stays is the disk
AppStateFailed ==
    /\ loop_pc' = "failed"
    /\ progress' = ProgressFile_new
    /\ current_index' = 0

\* main: AppState::load, then `--exercise <name>` when given
Launch(jump) ==
    /\ loop_pc \in {"launch", "failed"}
    /\ LET loaded == load_progress(disk)
           idx == resolve_current_index(loaded.value)
           jumped == set_current_by_name(idx, Unwrap(jump))
       IN  IF ~loaded.ok \/ (IsSome(jump) /\ ~jumped.ok)
           THEN /\ AppStateFailed
                /\ last_return' = NoCall
           ELSE /\ loop_pc' = "client"
                /\ progress' = loaded.value
                /\ current_index' = IF IsSome(jump) THEN jumped.index ELSE idx
                /\ last_return' = [op |-> "load", jump |-> jump]
    /\ UNCHANGED <<disk, saves_left, AppStateRest>>

CallNext ==
    /\ loop_pc = "client"
    /\ current_index' = next(current_index)
    /\ last_return' = [op |-> "next", index |-> current_index]
    /\ UNCHANGED <<loop_pc, progress, disk, saves_left, AppStateRest>>

CallPrev ==
    /\ loop_pc = "client"
    /\ current_index' = prev(current_index)
    /\ last_return' = [op |-> "prev", index |-> current_index]
    /\ UNCHANGED <<loop_pc, progress, disk, saves_left, AppStateRest>>

CallMarkCompleted ==
    /\ loop_pc = "client"
    /\ \E n \in Names :
          /\ progress' = mark_completed(progress, n)
          /\ last_return' = [op |-> "mark_completed", name |-> n, before |-> progress]
    /\ UNCHANGED <<loop_pc, current_index, disk, saves_left, AppStateRest>>

CallSaveProgress ==
    /\ loop_pc = "client"
    /\ saves_left > 0
    /\ saves_left' = saves_left - 1
    /\ \E outcome \in SaveOutcomes :
          LET saved == save_progress(progress, current_index, disk, outcome)
          IN  /\ disk' = saved.disk
              /\ last_return' = [op |-> "save_progress", ok |-> saved.ok, before |-> disk]
              /\ IF saved.ok
                 THEN /\ progress' = saved.progress
                      /\ UNCHANGED <<loop_pc, current_index>>
                 ELSE AppStateFailed
    /\ UNCHANGED AppStateRest

\* main, "Render current state": render_complete, or render_main with its
\* progress bar
CallRender ==
    /\ loop_pc = "client"
    /\ LET view == rendered_view(progress, final_message)
           bar == progress_bar(progress)
       IN  /\ last_return' = [op |-> "render", view |-> view, before |-> progress,
                              bar |-> IF view = "main" THEN Some(bar) ELSE None]
           /\ IF view = "main" /\ bar.panic
              THEN AppStateFailed
              ELSE UNCHANGED <<loop_pc, progress, current_index>>
    /\ UNCHANGED <<disk, saves_left, AppStateRest>>

AppStateNext ==
    \/ \E jump \in {None} \cup {Some(n) : n \in 1..StaleId} : Launch(jump)
    \/ CallRender
    \/ CallNext
    \/ CallPrev
    \/ CallMarkCompleted
    \/ CallSaveProgress

AppStateSpec == AppStateInit /\ [][AppStateNext]_vars

\* --- the output ring alone: one run of the first exercise whose script
\* writes RingLines lines, odd ones to stdout and even ones to stderr; the
\* forwarder passes them on in that order, then Done, and the Loop drains them
\* The i-th line of that run
RingLine(i) ==
    IF i % 2 = 1
    THEN Stdout([exercise |-> exercises[1].name, stream |-> "stdout", n |-> i])
    ELSE Stderr([exercise |-> exercises[1].name, stream |-> "stderr", n |-> i])

RingInit ==
    /\ progress = ProgressFile_new
    /\ current_index = 0
    /\ disk = [canonical |-> None, tmp |-> None]
    /\ last_verify = None
    /\ verifying = TRUE
    /\ output_buffer = <<>>
    /\ pending_verify = FALSE
    /\ debouncer = Debouncer_new(DebounceMs)
    /\ loop_pc = "worker_msgs"
    /\ verify_ch = <<>>
    /\ result_ch = <<>>
    /\ watch_ch = <<>>
    /\ simple_mode = TRUE
    /\ wk_pc = "join_forwarder"
    /\ wk_exercise = exercises[1]
    /\ python_ok = TRUE
    /\ child = NoChild
    /\ out_ch = <<>>
    /\ fwd_pc = "running"
    /\ line_budget = RingLines
    /\ saves_left = 0
    /\ submitted = <<>>
    /\ since_event = None
    /\ last_return = None
    /\ last_result = "none"
    /\ terminal = Terminal_none
    /\ term_events = <<>>
    /\ last_poll = NoPoll
    /\ notify_ch = <<>>
    /\ final_message = None
    /\ pending_for = 0

\* output_forwarder: `tx_clone.send(VerifyMessage::Output(line))` for the next
\* line of the run, at most RingQueue messages ahead of the Loop
ForwardLine ==
    /\ fwd_pc = "running"
    /\ line_budget > 0
    /\ Len(result_ch) < RingQueue
    /\ result_ch' = Append(result_ch,
                           Output(RingLine(RingLines - line_budget + 1), wk_exercise.name))
    /\ line_budget' = line_budget - 1
    /\ UNCHANGED <<loop_vars, debounce_vars, simple_mode, terminal, input_vars, verify_ch,
                   watch_ch, saves_left, submitted, wk_pc, wk_exercise,
                   python_ok, child, out_ch, fwd_pc>>

\* output_forwarder: the Done of the run is passed on, and the thread ends
ForwardDone ==
    /\ fwd_pc = "running"
    /\ line_budget = 0
    /\ result_ch' = Append(result_ch, Output(Done(TRUE), wk_exercise.name))
    /\ fwd_pc' = "done"
    /\ UNCHANGED <<loop_vars, debounce_vars, env_vars, verify_ch, watch_ch,
                   saves_left, submitted, wk_pc, wk_exercise, python_ok, child,
                   out_ch>>

RingNext ==
    \/ ForwardLine
    \/ ForwardDone
    \/ LoopRecvOutput

RingSpec == RingInit /\ [][RingNext]_vars

\* --- the Debouncer alone, with a client that calls should_process and reset
\* at any time
DebounceChoices == {n * FineStep : n \in 1..(DebounceMs \div FineStep)}

DebouncerInit ==
    /\ progress = ProgressFile_new
    /\ current_index = 0
    /\ disk = [canonical |-> None, tmp |-> None]
    /\ last_verify = None
    /\ verifying = FALSE
    /\ output_buffer = <<>>
    /\ pending_verify = FALSE
    /\ \E ms \in DebounceChoices : debouncer = Debouncer_new(ms)
    /\ loop_pc = "client"
    /\ verify_ch = <<>>
    /\ result_ch = <<>>
    /\ watch_ch = <<>>
    /\ simple_mode = TRUE
    /\ wk_pc = "recv"
    /\ wk_exercise = NoExercise
    /\ python_ok = FALSE
    /\ child = NoChild
    /\ out_ch = <<>>
    /\ fwd_pc = "none"
    /\ line_budget = 0
    /\ saves_left = 0
    /\ submitted = <<>>
    /\ since_event = None
    /\ last_return = None
    /\ last_result = "none"
    /\ terminal = Terminal_none
    /\ term_events = <<>>
    /\ last_poll = NoPoll
    /\ notify_ch = <<>>
    /\ final_message = None
    /\ pending_for = 0

CallShouldProcess ==
    /\ debouncer' = should_process(debouncer).d
    /\ last_return' = Some(should_process(debouncer).ret)
    /\ since_event' = Some(0)
    /\ UNCHANGED <<loop_vars, env_vars, worker_vars, channels, saves_left,
                   submitted>>

CallReset ==
    /\ debouncer' = reset(debouncer)
    /\ since_event' = None
    /\ UNCHANGED <<loop_vars, env_vars, worker_vars, channels, saves_left,
                   submitted, last_return>>

DebouncerNext ==
    \/ CallShouldProcess
    \/ CallReset
    \/ Tick(FineStep)

DebouncerSpec == DebouncerInit /\ [][DebouncerNext]_vars

\* --- poll_key alone: keys are pressed and other terminal events arrive, and a
\* client polls at any time
PollInit ==
    /\ progress = ProgressFile_new
    /\ current_index = 0
    /\ disk = [canonical |-> None, tmp |-> None]
    /\ last_verify = None
    /\ verifying = FALSE
    /\ output_buffer = <<>>
    /\ pending_verify = FALSE
    /\ debouncer = Debouncer_new(DebounceMs)
    /\ loop_pc = "poll_key"
    /\ verify_ch = <<>>
    /\ result_ch = <<>>
    /\ watch_ch = <<>>
    /\ simple_mode = TRUE
    /\ wk_pc = "recv"
    /\ wk_exercise = NoExercise
    /\ python_ok = FALSE
    /\ child = NoChild
    /\ out_ch = <<>>
    /\ fwd_pc = "none"
    /\ line_budget = 0
    /\ saves_left = 0
    /\ submitted = <<>>
    /\ since_event = None
    /\ last_return = None
    /\ last_result = "none"
    /\ terminal = Terminal_enter(Terminal_none, "ok").terminal
    /\ term_events = <<>>
    /\ last_poll = NoPoll
    /\ notify_ch = <<>>
    /\ final_message = None
    /\ pending_for = 0

PollRest ==
    <<loop_vars, debounce_vars, worker_vars, channels, simple_mode, line_budget,
      terminal, notify_ch, final_message, saves_left, submitted>>

\* The terminal delivers an event
TermEventArrives ==
    /\ Len(term_events) < MaxEvents
    /\ \E e \in TermEvents : term_events' = Append(term_events, e)
    /\ UNCHANGED <<last_poll, PollRest>>

\* term::poll_key(timeout)
CallPollKey ==
    /\ \E outcome \in PollOutcomes :
          /\ last_poll' = poll_key(term_events, outcome).ret
          /\ term_events' = poll_key(term_events, outcome).events
    /\ UNCHANGED PollRest

PollNext ==
    \/ TermEventArrives
    \/ CallPollKey

PollSpec == PollInit /\ [][PollNext]_vars

\* --- the watcher thread alone: the platform watcher reports events of every
\* kind with up to MaxPaths paths, and errors, and process_notify_events
\* forwards them; nothing reads the channel
NotifyPaths ==
    WatchedPaths \cup {[dir |-> "exercises", stem |-> 1, ext |-> e] : e \in {"PY", ""}}

PathLists ==
    UNION {[1..n -> NotifyPaths] : n \in 0..MaxPaths}

AllNotifyResults ==
    [ok : {TRUE}, kind : EventKinds, paths : PathLists] \cup {[ok |-> FALSE]}

WatcherInit ==
    /\ progress = ProgressFile_new
    /\ current_index = 0
    /\ disk = [canonical |-> None, tmp |-> None]
    /\ last_verify = None
    /\ verifying = FALSE
    /\ output_buffer = <<>>
    /\ pending_verify = FALSE
    /\ debouncer = Debouncer_new(DebounceMs)
    /\ loop_pc = "enter"
    /\ verify_ch = <<>>
    /\ result_ch = <<>>
    /\ watch_ch = <<>>
    /\ simple_mode = TRUE
    /\ wk_pc = "recv"
    /\ wk_exercise = NoExercise
    /\ python_ok = FALSE
    /\ child = NoChild
    /\ out_ch = <<>>
    /\ fwd_pc = "none"
    /\ line_budget = 0
    /\ saves_left = MaxNotify
    /\ submitted = <<>>
    /\ since_event = None
    /\ last_return = None
    /\ last_result = "none"
    /\ terminal = Terminal_none
    /\ term_events = <<>>
    /\ last_poll = NoPoll
    /\ notify_ch = <<>>
    /\ final_message = None
    /\ pending_for = 0

WatcherRest ==
    <<loop_vars, debounce_vars, worker_vars, verify_ch, result_ch, simple_mode,
      line_budget, terminal, term_events, last_poll, final_message, submitted>>

\* The platform watcher's callback: `notify_tx.send(res)`
NotifyReports ==
    /\ saves_left > 0
    /\ saves_left' = saves_left - 1
    /\ \E res \in AllNotifyResults : notify_ch' = Append(notify_ch, res)
    /\ UNCHANGED <<watch_ch, WatcherRest>>

\* process_notify_events: one turn of `for res in notify_rx`
WatcherForward ==
    /\ notify_ch # <<>>
    /\ watch_ch' = watch_ch \o process_notify_event(Head(notify_ch))
    /\ notify_ch' = Tail(notify_ch)
    /\ UNCHANGED <<saves_left, WatcherRest>>

WatcherNext ==
    \/ NotifyReports
    \/ WatcherForward

WatcherSpec == WatcherInit /\ [][WatcherNext]_vars

\* --- Exercise::from_entry alone: an entry of info.toml is resolved and its
\* display path taken
EntryInit ==
    /\ progress = ProgressFile_new
    /\ current_index = 0
    /\ disk = [canonical |-> None, tmp |-> None]
    /\ last_verify = None
    /\ verifying = FALSE
    /\ output_buffer = <<>>
    /\ pending_verify = FALSE
    /\ debouncer = Debouncer_new(DebounceMs)
    /\ loop_pc = "client"
    /\ verify_ch = <<>>
    /\ result_ch = <<>>
    /\ watch_ch = <<>>
    /\ simple_mode = TRUE
    /\ wk_pc = "recv"
    /\ wk_exercise = NoExercise
    /\ python_ok = FALSE
    /\ child = NoChild
    /\ out_ch = <<>>
    /\ fwd_pc = "none"
    /\ line_budget = 0
    /\ saves_left = 0
    /\ submitted = <<>>
    /\ since_event = None
    /\ \E entry \in ExerciseEntries, pack_root \in PackRoots :
          last_return = [op |-> "entry", entry |-> entry, pack_root |-> pack_root]
    /\ last_result = "none"
    /\ terminal = Terminal_none
    /\ term_events = <<>>
    /\ last_poll = NoPoll
    /\ notify_ch = <<>>
    /\ final_message = None
    /\ pending_for = 0

\* Exercise::from_entry(&entry, pack_root), then display_path()
CallFromEntry ==
    /\ last_return.op = "entry"
    /\ LET exercise == from_entry(last_return.entry, last_return.pack_root)
       IN  last_return' = [op |-> "from_entry", entry |-> last_return.entry,
                           exercise |-> exercise,
                           display_path |-> display_path(exercise)]
    /\ UNCHANGED <<loop_vars, debouncer, since_event, env_vars, worker_vars,
                   channels, saves_left, submitted>>

EntrySpec == EntryInit /\ [][CallFromEntry]_vars

\* --- parse_zenml_status alone.  A document is a text that parses as JSON or
\* not; `items` is the root's array of that name when it has one; an item's
\* `status` is its string of that name when it has one
ItemChoices == [status : {None, Some("completed"), Some("running"), Some("failed")}]

ParseDocuments ==
    {Listing(items) : items \in UNION {[1..n -> ItemChoices] : n \in 0..MaxItems}}
        \cup {[json |-> TRUE, items |-> None], [json |-> FALSE, items |-> None]}

ParseInit ==
    /\ progress = ProgressFile_new
    /\ current_index = 0
    /\ disk = [canonical |-> None, tmp |-> None]
    /\ last_verify = None
    /\ verifying = FALSE
    /\ output_buffer = <<>>
    /\ pending_verify = FALSE
    /\ debouncer = Debouncer_new(DebounceMs)
    /\ loop_pc = "client"
    /\ verify_ch = <<>>
    /\ result_ch = <<>>
    /\ watch_ch = <<>>
    /\ simple_mode = FALSE
    /\ wk_pc = "recv"
    /\ wk_exercise = NoExercise
    /\ python_ok = FALSE
    /\ child = NoChild
    /\ out_ch = <<>>
    /\ fwd_pc = "none"
    /\ line_budget = 0
    /\ saves_left = 0
    /\ submitted = <<>>
    /\ since_event = None
    /\ \E out \in ParseDocuments : last_return = [op |-> "document", out |-> out]
    /\ last_result = "none"
    /\ terminal = Terminal_none
    /\ term_events = <<>>
    /\ last_poll = NoPoll
    /\ notify_ch = <<>>
    /\ final_message = None
    /\ pending_for = 0

\* run_zenml_status_check: `let status = parse_zenml_status(&stdout)`
CallParseStatus ==
    /\ last_return.op = "document"
    /\ last_return' = [op |-> "parse_zenml_status", out |-> last_return.out,
                       status |-> parse_zenml_status(last_return.out)]
    /\ UNCHANGED <<loop_vars, debouncer, since_event, env_vars, worker_vars,
                   channels, saves_left, submitted>>

ParseSpec == ParseInit /\ [][CallParseStatus]_vars

\* ----------------------------------------------------------------- claims
Count(q, Test(_)) == Cardinality({i \in 1..Len(q) : Test(q[i])})

IsRun(m) == m.type = "Run"
IsResult(m) == m.type = "Result"

\* Runs sent by the Loop whose Result the Loop has not taken off its channel:
\* queued, being processed by the worker, or answered and not yet received
Outstanding ==
    Count(verify_ch, IsRun)
        + (IF wk_exercise.name # 0 THEN 1 ELSE 0)
        + Count(result_ch, IsResult)

\* C1: while the loop runs, `verifying` is true if and only if exactly one Run
\* has been sent whose Result the Loop has not consumed yet.
VerifyingIffOneOutstanding ==
    LoopRunning => (verifying <=> Outstanding = 1)

\* C2: whenever `verifying` is set it becomes false again, the child exiting
\* and the worker and the Loop being scheduled (a Loop blocked in a modal by a
\* learner who never dismisses it is not scheduled).
VerifyingEventuallyCleared ==
    verifying ~> (~verifying \/ loop_pc = "modal")

\* The Loop is about to take a Result whose name is not the current exercise's
StaleResultAtHead ==
    /\ loop_pc = "worker_msgs"
    /\ result_ch # <<>>
    /\ Head(result_ch).type = "Result"
    /\ Head(result_ch).result.exercise_name # exercises[current_index + 1].name

\* C3: the receipt of a Result whose exercise_name differs from the current
\* exercise's name changes none of progress (completed included), the progress
\* file on disk, last_verify, verifying, current_index and the output ring,
\* whether the Result is Passed or not.
StaleResultMutatesNothing ==
    [][(StaleResultAtHead /\ result_ch' = Tail(result_ch))
          => UNCHANGED <<progress, disk, last_verify, verifying, current_index,
                         output_buffer>>]_vars

\* C3 witness: a Passed Result has been dropped and no exercise is completed
StaleResultDropped ==
    /\ last_result = "dropped_passed"
    /\ progress.completed = <<>>
    /\ verifying

\* The loop is ticking: it is neither left nor blocked in a modal
LoopTicking == loop_pc \in {"worker_msgs", "watch_events", "poll_key"}

\* C8: without Rerun, a burst of file events for the current exercise (it sets
\* pending_verify) causes a Run: pending_verify is cleared by the send of the
\* Run, as long as the loop ticks.
BurstCausesRun ==
    pending_verify ~> (~pending_verify \/ ~LoopTicking)

\* C9: ready_to_trigger is true if and only if a recording has been made since
\* construction or the last reset and at least the debounce duration has
\* elapsed since the most recent recording, whatever should_process returned.
ReadyIffQuietSinceLastRecording ==
    ready_to_trigger(debouncer)
        <=> (IsSome(since_event)
                /\ Unwrap(since_event) >= debouncer.debounce_duration)

\* C9 witness: a second recording within the window returned false, and the
\* query within the duration of that second recording is false
SecondRecordingRestartsWindow ==
    /\ last_return = Some(FALSE)
    /\ IsSome(since_event)
    /\ Unwrap(since_event) > 0
    /\ Unwrap(since_event) < debouncer.debounce_duration
    /\ ~ready_to_trigger(debouncer)

\* A recording has been made and a wait shorter than the duration has followed
ShortWaitAfterObserve ==
    /\ IsSome(since_event)
    /\ Unwrap(since_event) > 0
    /\ Unwrap(since_event) < debouncer.debounce_duration

\* C10 as stated: after a recording followed by a wait shorter than the
\* debounce duration, ready_to_trigger returns true.
ShortWaitIsReady ==
    ShortWaitAfterObserve => ready_to_trigger(debouncer)

\* C10: after a recording followed by a wait shorter than the debounce
\* duration, ready_to_trigger returns false.
ShortWaitIsNotReady ==
    ShortWaitAfterObserve => ~ready_to_trigger(debouncer)

\* C10 witness: one recording, then a wait shorter than the duration
ObservedThenShortWait ==
    /\ last_return = Some(TRUE)
    /\ ShortWaitAfterObserve
    /\ ~ready_to_trigger(debouncer)

\* ------------------------------------------------ claims about the worker
IsLineMsg(m) == m.type = "Output" /\ m.line.kind \in {"Stdout", "Stderr"}
IsDoneMsg(m) == m.type = "Output" /\ m.line.kind = "Done"

\* The messages on the outbound channel that belong to the Run of exercise e
RunMsgs(e) == SelectSeq(result_ch, LAMBDA m : m.run = e)

\* The Results for exercise e on the outbound channel
ResultCount(e) ==
    Cardinality({i \in 1..Len(result_ch) :
                    /\ IsResult(result_ch[i])
                    /\ result_ch[i].result.exercise_name = e})

\* C4: for a Run that has its Result, the messages of the run are zero or more
\* Output(Stdout|Stderr), then exactly one Output(Done), then the one Result,
\* whether the child succeeded, failed or could not be spawned.
OutputsThenDoneThenResult ==
    \A e \in Names :
        ResultCount(e) > 0 =>
            LET q == RunMsgs(e)
            IN  /\ Len(q) >= 2
                /\ IsResult(q[Len(q)])
                /\ IsDoneMsg(q[Len(q) - 1])
                /\ \A i \in 1..(Len(q) - 2) : IsLineMsg(q[i])

\* The Run of exercise e is on the request channel
InQueue(e) ==
    \E i \in 1..Len(verify_ch) :
        IsRun(verify_ch[i]) /\ verify_ch[i].exercise.name = e

\* The worker has taken the Run of exercise e off the request channel
Dequeued(e) == InSeq(e, submitted) /\ ~InQueue(e)

\* C5: every Run the worker dequeues yields exactly one Result on the outbound
\* channel: never two, none for a Run that was not dequeued, and one
\* eventually, the child terminating and the worker's threads being scheduled,
\* on every path (spawn failure, wait failure and status-tool failure too).
ExactlyOneResultPerRun ==
    /\ [](\A e \in Names :
            /\ ResultCount(e) <= 1
            /\ ResultCount(e) = 1 => Dequeued(e))
    /\ \A e \in Names : Dequeued(e) ~> (ResultCount(e) = 1)

\* C5 witness: a Run that sent no Done (the child could not be spawned, or
\* waiting for it failed) has its Result, and so has a Run that sent Done
ResultWithoutDone ==
    \E e, f \in Names :
        /\ ResultCount(e) = 1
        /\ Count(RunMsgs(e), IsDoneMsg) = 0
        /\ ResultCount(f) = 1
        /\ Count(RunMsgs(f), IsDoneMsg) = 1

IsPrefix(a, b) == Len(a) <= Len(b) /\ SubSeq(b, 1, Len(a)) = a

\* The texts of the lines of a pipe that are valid UTF-8, in the order written
Decoded(pipe) ==
    LET ok == SelectSeq(pipe, LAMBDA l : l.utf8)
    IN  [i \in 1..Len(ok) |-> ok[i].text]

\* The texts of the lines of one stream of the Run of e on the outbound channel
Sent(e, kind) ==
    LET ms == SelectSeq(result_ch,
                  LAMBDA m : m.run = e /\ m.type = "Output" /\ m.line.kind = kind)
    IN  [i \in 1..Len(ms) |-> ms[i].line.text]

\* The worker is about to send the Result of the run
ResultDue == wk_pc = "join_forwarder" /\ fwd_pc = "done"

\* The texts of all the lines the child wrote to a pipe, in the order written
Written(pipe) == [i \in 1..Len(pipe) |-> pipe[i].text]

\* No Output(Stdout|Stderr) of a run is on the outbound channel after the run's
\* Result
NoLineAfterResult ==
    \A i, j \in 1..Len(result_ch) :
        (i < j /\ IsResult(result_ch[i]) /\ IsLineMsg(result_ch[j]))
            => result_ch[j].run # result_ch[i].run

\* C6: no Output(Stdout|Stderr) of a run is on the outbound channel after the
\* run's Result, and when the Result is sent the lines of each stream on the
\* channel are the lines the child wrote on that stream, in the order written.
NoLineLateOrLost ==
    /\ NoLineAfterResult
    /\ ResultDue =>
          /\ Sent(wk_exercise.name, "Stdout") = Written(child.stdout)
          /\ Sent(wk_exercise.name, "Stderr") = Written(child.stderr)

\* What holds of C6 under every interleaving: no line after the Result, and
\* the lines that are valid UTF-8 are forwarded, all of them by the time the
\* Result is sent, in the order written.  The readers skip the lines for which
\* `reader.lines()` yields Err.
NoDecodedLineLateOrLost ==
    /\ NoLineAfterResult
    /\ wk_exercise.name # 0 =>
          /\ IsPrefix(Sent(wk_exercise.name, "Stdout"), Decoded(child.stdout))
          /\ IsPrefix(Sent(wk_exercise.name, "Stderr"), Decoded(child.stderr))
    /\ ResultDue =>
          /\ Sent(wk_exercise.name, "Stdout") = Decoded(child.stdout)
          /\ Sent(wk_exercise.name, "Stderr") = Decoded(child.stderr)

\* The names of the Results on the outbound channel, in order
ResultOrder ==
    LET rs == SelectSeq(result_ch, IsResult)
    IN  [i \in 1..Len(rs) |-> rs[i].result.exercise_name]

\* The Runs submitted, in order
SubmittedRuns == SelectSeq(submitted, LAMBDA x : x # 0)

\* C7: Results are on the outbound channel in the order their Runs were
\* submitted, and the Run the worker is processing (the only one that can have
\* a child) is the first submitted Run whose Result is not sent yet.
FifoOneAtATime ==
    /\ IsPrefix(ResultOrder, SubmittedRuns)
    /\ wk_exercise.name # 0 =>
          /\ Len(ResultOrder) < Len(SubmittedRuns)
          /\ wk_exercise.name = SubmittedRuns[Len(ResultOrder) + 1]
    /\ child.state # "none" => wk_exercise.name # 0

\* C7 witness: two Runs were queued together and both have their Result
TwoResultsInOrder ==
    /\ Len(ResultOrder) >= 2
    /\ ResultOrder = SubmittedRuns

\* A Passed Result for the current exercise is next in the Loop's channel
MatchingPassedAtHead ==
    /\ loop_pc = "worker_msgs"
    /\ result_ch # <<>>
    /\ Head(result_ch).type = "Result"
    /\ Head(result_ch).result.exercise_name = exercises[current_index + 1].name
    /\ Head(result_ch).result.outcome = "Passed"

\* The progress file exists, is whole, and lists this name as completed
FileLists(d, name) ==
    /\ IsSome(d.canonical)
    /\ from_json(Unwrap(d.canonical)).ok
    /\ \E k \in 1..Len(from_json(Unwrap(d.canonical)).value.completed) :
          from_json(Unwrap(d.canonical)).value.completed[k] = name

\* C12: when the Loop has consumed a Passed Result whose name is the current
\* exercise's and goes on ticking, that name is in progress.completed and in
\* the progress file on disk, and current_index is what it was.
PassedResultIsRecorded ==
    [][(MatchingPassedAtHead /\ result_ch' = Tail(result_ch) /\ loop_pc' = "worker_msgs")
          => /\ \E k \in 1..Len(progress'.completed) :
                    progress'.completed[k] = Head(result_ch).result.exercise_name
             /\ FileLists(disk', Head(result_ch).result.exercise_name)
             /\ current_index' = current_index]_vars

\* C12 witness: a Passed Result has been applied to the current exercise, which
\* is now completed in memory and on disk
PassedResultApplied ==
    /\ last_result = "applied"
    /\ IsSome(last_verify)
    /\ Unwrap(last_verify).outcome = "Passed"
    /\ Unwrap(last_verify).exercise_name = exercises[current_index + 1].name
    /\ FileLists(disk, exercises[current_index + 1].name)

\* The lines of the ring's run that the Loop has handled so far
Handled ==
    RingLines - line_budget
        - Cardinality({i \in 1..Len(result_ch) : result_ch[i].line.kind # "Done"})

\* C13: after the Loop has handled any worker message the output ring holds at
\* most 100 lines: the most recent ones, in the order they arrived; a push
\* onto a full ring evicts the oldest line.
RingHoldsNewestLines ==
    /\ Len(output_buffer) <= OutputCap
    /\ Len(output_buffer) = Min(Handled, OutputCap)
    /\ \A i \in 1..Len(output_buffer) :
          output_buffer[i] = RingLine(Handled - Len(output_buffer) + i).text

\* C13 witness: the ring is full and its oldest lines have been evicted
RingEvicted ==
    /\ Len(output_buffer) = OutputCap
    /\ output_buffer[1].n = 3
    /\ output_buffer[OutputCap].n = OutputCap + 2

\* C17: a progress save that fails (after a passing Result, a Hint, Next or
\* Prev) is not fatal: the Loop is never ended by it, and goes on ticking with
\* its in-memory state.
SaveFailureIsNotFatal == loop_pc # "failed"

\* C18: on a cold start (a pack without progress file) the progress file exists
\* as soon as the Loop runs, before any action or verification; while the
\* record in memory is still the fresh one, current_index is 0 and the file
\* holds an empty `completed` and the first exercise as `current`.
ColdStartCreatesFile ==
    LoopRunning =>
        /\ IsSome(disk.canonical)
        /\ from_json(Unwrap(disk.canonical)).ok
        /\ progress = ProgressFile_new =>
              /\ current_index = 0
              /\ from_json(Unwrap(disk.canonical)).value.completed = <<>>
              /\ from_json(Unwrap(disk.canonical)).value.current = Some(exercises[1].name)

\* The child of the run of exercise e exited successfully: the run's Done
\* carries the success of its exit status
ChildSucceeded(e) ==
    \E i \in 1..Len(result_ch) :
        /\ result_ch[i].run = e
        /\ IsDoneMsg(result_ch[i])
        /\ result_ch[i].line.success

\* The Results on the outbound channel
Results == {result_ch[i] : i \in {j \in 1..Len(result_ch) : IsResult(result_ch[j])}}

\* C19: in simple mode the outcome of a run is Passed when its child exited
\* successfully and Failed in every other case, a child that could not be
\* spawned included; the status tool is not started.
SimpleModeFollowsExit ==
    simple_mode =>
        \A m \in Results :
            /\ m.result.outcome = (IF ChildSucceeded(m.run) THEN "Passed" ELSE "Failed")
            /\ m.calls.tool = "none"
            /\ ~m.result.zenml_checked

\* C19 witness: in simple mode one run has passed and another, whose child
\* sent no Done, has failed
SimpleModeBothOutcomes ==
    /\ simple_mode
    /\ \E m \in Results : m.result.outcome = "Passed" /\ ChildSucceeded(m.run)
    /\ \E m \in Results :
          /\ m.result.outcome = "Failed"
          /\ \A i \in 1..Len(result_ch) : result_ch[i].run = m.run => ~IsDoneMsg(result_ch[i])

\* The status of the first item the status tool listed, if it listed one
FirstListedStatus(out) ==
    IF IsSome(out.items) /\ Len(Unwrap(out.items)) > 0
    THEN Unwrap(out.items)[1].status
    ELSE None

\* The message that names the actual and the expected status
MismatchMessage(actual, expected) ==
    "Pipeline status '" \o (IF IsSome(actual) THEN Unwrap(actual) ELSE "unknown")
        \o "', expected '" \o expected \o "'"

\* What full mode owes a run whose status tool was started and exited
\* successfully: Passed when the first listed status is the expected one,
\* else Failed with the message that names both
StatusDecides(m) ==
    m.calls.tool = "exit_ok" =>
        IF FirstListedStatus(m.calls.out) = Some(exercises[m.run].verify_status)
        THEN m.result.outcome = "Passed"
        ELSE /\ m.result.outcome = "Failed"
             /\ m.result.message =
                    MismatchMessage(FirstListedStatus(m.calls.out),
                                    exercises[m.run].verify_status)

\* C20: in full mode, a run whose child exited successfully has the status
\* tool consulted, and is Passed exactly when the status of the first listed
\* item is the expected one, else Failed with a message naming the actual and
\* the expected status; a run whose child failed is Failed and the status tool
\* is not started.
FullModeFollowsStatus ==
    ~simple_mode =>
        \A m \in Results :
            IF ChildSucceeded(m.run)
            THEN /\ m.calls.tool # "none"
                 /\ StatusDecides(m)
                 /\ m.result.outcome = "Passed" => m.calls.tool = "exit_ok"
            ELSE /\ m.result.outcome = "Failed"
                 /\ m.calls.tool = "none"

\* What holds of full mode: the status tool is started exactly for the runs
\* whose child exited successfully and whose second execution by
\* verify_exercise exited successfully too, and the status then decides
FullModeFollowsStatusOfSecondRun ==
    ~simple_mode =>
        \A m \in Results :
            /\ m.calls.tool # "none" <=> (ChildSucceeded(m.run) /\ m.calls.capture = "exit_ok")
            /\ StatusDecides(m)
            /\ m.result.outcome = "Passed" => m.calls.tool = "exit_ok"

\* The status tool of the run of m failed: it could not be started, exited
\* non-zero, or printed a text without a string status in a first item
ToolFailed(m) ==
    \/ m.calls.tool \in {"spawn_failed", "exit_failed"}
    \/ /\ m.calls.tool = "exit_ok"
       /\ FirstListedStatus(m.calls.out) = None

\* C21: a run whose status tool failed (could not be started, exited non-zero,
\* or printed no parseable first-item status) has a Failed Result, never a
\* Passed one.
ToolFailureIsFailed ==
    \A m \in Results : ToolFailed(m) => m.result.outcome = "Failed"

\* C21 witness: a status tool that exited non-zero has ended one run with a
\* Failed Result, and one whose first item has no status, while a later item
\* is completed, has ended another
ToolFailuresSeen ==
    /\ \E m \in Results : m.calls.tool = "exit_failed" /\ m.result.outcome = "Failed"
    /\ \E m \in Results :
          /\ m.calls.tool = "exit_ok"
          /\ IsSome(m.calls.out.items)
          /\ Len(Unwrap(m.calls.out.items)) = 2
          /\ FirstListedStatus(m.calls.out) = None
          /\ m.result.outcome = "Failed"

\* The Result next in the Loop's channel is that of a run stopped by an I/O
\* error: the learner script could not be spawned (the streamed child, or the
\* second execution by verify_exercise), or the status tool could not be run
IoErrorResultAtHead ==
    /\ loop_pc = "worker_msgs"
    /\ result_ch # <<>>
    /\ Head(result_ch).type = "Result"
    /\ \/ ~Head(result_ch).calls.spawned
       \/ Head(result_ch).calls.capture = "spawn_failed"
       \/ Head(result_ch).calls.tool = "spawn_failed"

\* What the Loop and the worker owe such a Result when the Loop consumes it
IoErrorSurfaced ==
    /\ Head(result_ch).result.outcome = "Failed"
    /\ Head(result_ch).result.exercise_name = Head(result_ch).run
    /\ ~verifying'
    /\ last_verify' = Some(Head(result_ch).result)
    /\ loop_pc' = "worker_msgs"
    /\ wk_pc' # "stopped"

\* C22: a run stopped by an I/O error reaches the Loop as a Failed Result for
\* its exercise; when the Loop consumes it, it clears `verifying`, stores the
\* result and goes on ticking, and the worker is still there to serve later
\* Runs.
IoErrorIsFailedResult ==
    [][(IoErrorResultAtHead /\ result_ch' = Tail(result_ch)) => IoErrorSurfaced]_vars

\* What holds of such a Result: the same, when its exercise is still the
\* current one
IoErrorIsFailedResultIfCurrent ==
    [][(/\ IoErrorResultAtHead
        /\ Head(result_ch).result.exercise_name = exercises[current_index + 1].name
        /\ result_ch' = Tail(result_ch)) => IoErrorSurfaced]_vars

\* A run is outstanding at the worker: requested and not yet at its Result
RunOutstanding ==
    \/ wk_pc \in {"spawn", "wait", "join_readers", "join_forwarder"}
    \/ \E i \in 1..Len(verify_ch) : IsRun(verify_ch[i])

\* C23: once the learner has pressed Quit while a run is outstanding, the
\* program terminates, whether the child of that run ever exits or not.
QuitBypassesRun ==
    (loop_pc = "shutdown" /\ RunOutstanding) ~> (loop_pc = "done")

\* The place of request x in the order of submission (0 is Stop)
Place(x) == CHOOSE i \in 1..Len(submitted) : submitted[i] = x

\* The Run of exercise e was submitted before Stop, and after it
BeforeStop(e) == InSeq(e, submitted) /\ InSeq(0, submitted) /\ Place(e) < Place(0)
AfterStop(e) == InSeq(e, submitted) /\ InSeq(0, submitted) /\ Place(0) < Place(e)

\* C24: Stop does not cut a run short: when the worker has stopped, every Run
\* submitted before Stop has run to its Result; the worker stops only by
\* taking Stop off its channel; and a Run submitted after Stop is never taken,
\* never executed and has no message on the outbound channel.
StopEndsWorkerBetweenRuns ==
    /\ wk_pc = "stopped" =>
          /\ InSeq(0, submitted)
          /\ \A i \in 1..Len(verify_ch) : verify_ch[i].type # "Stop"
          /\ wk_exercise = NoExercise
          /\ \A e \in Names : BeforeStop(e) => ResultCount(e) = 1
    /\ \A e \in Names :
          AfterStop(e) =>
              /\ InQueue(e)
              /\ wk_exercise.name # e
              /\ RunMsgs(e) = <<>>

\* C24 witness: the worker has stopped after the Result of the Run submitted
\* before Stop, and the Run submitted after Stop is still on the channel
StoppedAfterRunBeforeNext ==
    /\ wk_pc = "stopped"
    /\ submitted = <<1, 0, 2>>
    /\ ResultCount(1) = 1
    /\ Len(RunMsgs(1)) > 2
    /\ verify_ch = <<Run(exercises[2])>>

\* C25: on every way out of the process once Terminal::enter has started (the
\* Quit action, an error that leaves the loop, an error part-way through
\* enter), raw mode is disabled and the cursor is shown.  Violated: when
\* enable_raw_mode succeeded and execute! failed, enter returns Err without a
\* Terminal value, so nothing is dropped and the terminal stays raw
TerminalReleasedOnExit ==
    ~ProcessAlive => (~terminal.raw /\ ~terminal.cursor_hidden)

\* What the code does keep (supporting C25): once enter returned Ok, both the
\* Quit path and an error out of the loop restore the terminal
TerminalReleasedByGuard ==
    loop_pc \in {"done", "failed"} => (~terminal.raw /\ ~terminal.cursor_hidden)

\* The send path of "Trigger verification after debounce", as a step
SendPathEffect ==
    /\ verifying'
    /\ last_verify' = None
    /\ output_buffer' = <<>>
    /\ verify_ch' = Append(verify_ch, Run(current_exercise))
    /\ pending_verify' = FALSE
    /\ debouncer' = reset(debouncer)

\* A step that sends nothing and changes nothing of the loop's state
RerunIgnored ==
    UNCHANGED <<current_index, progress, disk, last_verify, verifying,
                output_buffer, pending_verify, debouncer, verify_ch>>

\* C26: Rerun pressed while not verifying has the effect of the debounce send
\* path (verifying set, last_verify and the ring cleared, Run of the current
\* exercise sent, pending_verify cleared, the debouncer reset); pressed while
\* verifying it sends nothing and changes nothing.  Violated: Action::Rerun
\* leaves pending_verify and the debouncer as they are
RerunIsSendPath ==
    [][LoopRerun =>
         IF ~verifying
         THEN SendPathEffect
         ELSE RerunIgnored]_vars

\* What the code does keep (supporting C26): Rerun while not verifying sets
\* verifying, clears last_verify and the ring and sends Run of the current
\* exercise; Rerun while verifying sends nothing and changes nothing
RerunSendsRun ==
    [][LoopRerun =>
         IF ~verifying
         THEN /\ verifying'
              /\ last_verify' = None
              /\ output_buffer' = <<>>
              /\ verify_ch' = Append(verify_ch, Run(current_exercise))
              /\ UNCHANGED <<pending_verify, debouncer>>
         ELSE RerunIgnored]_vars

\* An index moved by one step and clamped to the catalog
Clamped(i) ==
    IF i < 0 THEN 0 ELSE IF i > Len(exercises) - 1 THEN Len(exercises) - 1 ELSE i

\* The current exercise id the progress file on disk holds
PersistedCurrent(d) ==
    LET loaded == load_progress(d)
    IN  IF loaded.ok THEN loaded.value.current ELSE None

\* What a Next or Prev that arrives at index idx leaves behind
MovedTo(idx) ==
    /\ current_index' = idx
    /\ PersistedCurrent(disk') = Some(exercises[idx + 1].name)
    /\ output_buffer' = <<>>
    /\ last_verify' = None

\* C27: Next and Prev move current_index by one, clamped to the catalog, save
\* progress (the progress file then holds the new current exercise's id), clear
\* the output ring and clear last_verify, also when the index was at the
\* boundary and did not move (the handler returns to the top of the loop; a
\* step whose save fails ends the process instead)
NavigationSavesAndClears ==
    [][(loop_pc = "poll_key" /\ loop_pc' = "worker_msgs") =>
          /\ LoopNext => MovedTo(Clamped(current_index + 1))
          /\ LoopPrev => MovedTo(Clamped(current_index - 1))]_vars

\* C27: Prev or Next has saved at the first exercise: the file names it as
\* current though no hint was used and nothing was completed
NavigatedAtBoundary ==
    /\ loop_pc = "worker_msgs"
    /\ current_index = 0
    /\ PersistedCurrent(disk) = Some(exercises[1].name)
    /\ progress.completed = <<>>
    /\ \A n \in Names : progress.hints_used[n] = 0
    /\ output_buffer = <<>>
    /\ last_verify = None

\* The hint counters the progress file on disk holds
PersistedHints(d) ==
    LET loaded == load_progress(d)
    IN  IF loaded.ok THEN loaded.value.hints_used ELSE [n \in Names |-> 0]

\* The loop is running after the step: main has neither left it nor failed
LoopRunsOn == loop_pc' \in {"worker_msgs", "watch_events", "poll_key", "modal"}

\* C28: Hint on an exercise with a hint increments the counter of exactly that
\* exercise by 1 and the progress is on disk when the modal is shown; on an
\* exercise without hint no counter changes and nothing is saved; and no other
\* step of the running program changes a hint counter
HintCountsOnce ==
    [][/\ (loop_pc = "poll_key" /\ loop_pc' = "modal" /\ LoopHint) =>
             IF IsSome(current_exercise.hint)
             THEN /\ progress'.hints_used =
                         [progress.hints_used EXCEPT ![current_exercise.name] = @ + 1]
                  /\ PersistedHints(disk') = progress'.hints_used
             ELSE UNCHANGED <<progress, disk>>
       /\ (LoopRunsOn /\ progress'.hints_used # progress.hints_used) =>
             (LoopHint /\ IsSome(current_exercise.hint))]_vars

\* C28: the hint of the first exercise is on the screen, counted once and saved,
\* and the counter of the other exercise is untouched
HintShownAndCounted ==
    /\ loop_pc = "modal"
    /\ current_index = 0
    /\ progress.hints_used[exercises[1].name] = 1
    /\ progress.hints_used[exercises[2].name] = 0
    /\ PersistedHints(disk) = progress.hints_used

\* The key table: the action of each key code that has one
KeyTable ==
    [code \in {"q", "h", "n", "p", "l", "r", "s", "o", "Enter", "Esc"} |->
        CASE code = "q" -> "Quit"
          [] code = "h" -> "Hint"
          [] code = "n" -> "Next"
          [] code = "p" -> "Prev"
          [] code = "l" -> "List"
          [] code = "r" -> "Rerun"
          [] code = "s" -> "Solution"
          [] code = "o" -> "Open"
          [] code \in {"Enter", "Esc"} -> "Continue"]

\* The action the table gives a key: Ctrl-C is Quit, a key code of the table
\* has its action, every other key none
TableAction(key) ==
    IF key.code = "c" /\ "CONTROL" \in key.modifiers THEN "Quit"
    ELSE IF key.code \in DOMAIN KeyTable THEN KeyTable[key.code]
    ELSE "None"

\* C29: one poll reads at most one event and returns at most one Action, and
\* the action of a key is the one the key table gives it (every key has one:
\* Quit for q and Ctrl-C, Hint, Next, Prev, List, Rerun, Solution, Open for h,
\* n, p, l, r, s, o, Continue for Enter and Esc, None for every other key)
PollReturnsTableAction ==
    [][CallPollKey =>
         /\ Len(last_poll'.value) <= 1
         /\ \/ term_events' = term_events
            \/ term_events # <<>> /\ term_events' = Tail(term_events)
         /\ IsSome(last_poll'.value) =>
               /\ term_events # <<>>
               /\ Head(term_events).type = "Key"
               /\ term_events' = Tail(term_events)
               /\ Unwrap(last_poll'.value) = TableAction(Head(term_events))
         /\ (last_poll'.ok /\ term_events # <<>> /\ Head(term_events).type = "Key") =>
               IsSome(last_poll'.value)]_vars

\* C29: a Ctrl-C was read as Quit, and the Ctrl-C pressed after it is still
\* waiting for the next poll
PolledCtrlC ==
    /\ last_poll = [called |-> TRUE, ok |-> TRUE, value |-> Some("Quit")]
    /\ term_events = <<KeyEvent("c", {"CONTROL"})>>

\* The learner scripts among the paths of an event, in the event's order
ScriptPaths(paths) == SelectSeq(paths, LAMBDA path : path.ext = "py")

\* What the watcher is to send for one report of the platform watcher
ToForward(res) ==
    IF ~res.ok THEN <<WatchError>>
    ELSE IF res.kind[1] \in {"Modify", "Create"}
    THEN [i \in 1..Len(ScriptPaths(res.paths)) |-> FileChanged(ScriptPaths(res.paths)[i])]
    ELSE <<>>

EntryDefaultsFilled ==
    last_return.op = "from_entry" =>
        LET entry == last_return.entry
            exercise == last_return.exercise
        IN  /\ entry.pipeline_name # None => exercise.pipeline_name = entry.pipeline_name[1]
            /\ entry.pipeline_name = None =>
                    exercise.pipeline_name = entry.name \o "_pipeline"
            /\ entry.verify_status # None => exercise.verify_status = entry.verify_status[1]
            /\ entry.verify_status = None => exercise.verify_status = "completed"
            /\ last_return.display_path = entry.dir \o "/" \o entry.name \o ".py"

\* C31: the entry of the repository's test was resolved, with both defaults
EntryWithDefaultsResolved ==
    /\ last_return.op = "from_entry"
    /\ last_return.entry.name = "load1"
    /\ last_return.entry.pipeline_name = None
    /\ last_return.entry.verify_status = None
    /\ last_return.exercise.pipeline_name = "load1_pipeline"
    /\ last_return.exercise.verify_status = "completed"
    /\ last_return.display_path = "01_loading/load1.py"

\* Two documents that differ at most in the items after the first
SameFirstItem(a, b) ==
    /\ a.json /\ b.json
    /\ IsSome(a.items) /\ IsSome(b.items)
    /\ Len(Unwrap(a.items)) > 0 /\ Len(Unwrap(b.items)) > 0
    /\ Unwrap(a.items)[1] = Unwrap(b.items)[1]

\* C32: status parsing returns the status string of the first element of the
\* root items array and nothing else: no status when the document does not
\* parse, has no items, has an empty items array, or its first item has no
\* string status; and the items after the first never change the result
ParseTakesFirstItem ==
    last_return.op = "parse_zenml_status" =>
        LET out == last_return.out
            status == last_return.status
        IN  /\ ~out.json => status = None
            /\ out.items = None => status = None
            /\ (out.items # None /\ Unwrap(out.items) = <<>>) => status = None
            /\ (out.json /\ out.items # None /\ Unwrap(out.items) # <<>>) =>
                    status = Head(Unwrap(out.items)).status
            /\ \A other \in ParseDocuments :
                    SameFirstItem(out, other) => parse_zenml_status(other) = status

\* C32: a listing whose first item has no status, followed by a completed
\* run, was parsed to no status
ParsedListingWithLaterStatus ==
    /\ last_return.op = "parse_zenml_status"
    /\ last_return.out = Listing(<<[status |-> None], [status |-> Some("completed")]>>)
    /\ last_return.status = None

\* Every exercise of the catalog is in the record's completed list
CatalogCompleted(p) ==
    \A i \in 1..Len(exercises) : is_completed(p, exercises[i].name)

\* C33: the completion view is rendered instead of the main view exactly when
\* every exercise of the catalog is completed and a final message is
\* configured; stale identifiers in the record do not make the pack count as
\* complete.  Violated: all_completed compares the length of the completed
\* list with the length of the catalog
CompletionViewIffCatalogCompleted ==
    last_return.op = "render" =>
        (last_return.view = "complete"
            <=> (CatalogCompleted(last_return.before) /\ IsSome(final_message)))

\* What the code does keep (supporting C33): without a final message, and with
\* fewer completed identifiers than exercises, the main view is rendered; and
\* a completed catalog with a final message gets the completion view
CompletionViewNeedsMessage ==
    last_return.op = "render" =>
        /\ (final_message = None \/ Len(last_return.before.completed) < Len(exercises))
                => last_return.view = "main"
        /\ (CatalogCompleted(last_return.before) /\ IsSome(final_message))
                => last_return.view = "complete"

\* The catalog indexes (from 0) of the exercises a record does not list as
\* completed
Incomplete(p) ==
    {i \in 0..(Len(exercises) - 1) : ~is_completed(p, exercises[i + 1].name)}

\* The least number of a non-empty set of numbers
Least(S) == CHOOSE i \in S : \A j \in S : i <= j

\* The record a launch finds: the progress file's, or a new one
RecordFound == load_progress(disk).value

\* The index the startup is to use for record p
IsStartupIndex(idx, p) ==
    IF IsSome(p.current) /\ Unwrap(p.current) \in Names
    THEN exercises[idx + 1].name = Unwrap(p.current)
    ELSE IF Incomplete(p) # {}
    THEN idx = Least(Incomplete(p))
    ELSE idx = Len(exercises) - 1

\* C34: at startup, when the record's current id is in the catalog the index
\* of that exercise is used, completed or not; otherwise the index of the first
\* catalog exercise not in completed; and the last index when every catalog
\* exercise is completed; stale ids in completed or current never make the
\* load fail
StartupIndexResolved ==
    [][Launch(None) =>
         /\ loop_pc' = "client"
         /\ progress' = RecordFound
         /\ IsStartupIndex(current_index', RecordFound)]_vars

\* C34: the record named a completed exercise as current, listed a stale id,
\* and the launch took the index of the current one
LoadedAtCompletedCurrent ==
    /\ last_return.op = "load" /\ last_return.jump = None
    /\ RecordFound.current = Some(exercises[2].name)
    /\ is_completed(RecordFound, exercises[2].name)
    /\ is_completed(RecordFound, StaleId)
    /\ ~is_completed(RecordFound, exercises[1].name)
    /\ current_index = 1

\* C35: the progress bar of the main view has width 30, filled =
\* floor(completed_count * 30 / total), empty = 30 - filled and
\* 0 <= filled <= 30, so that the subtraction never underflows, also when the
\* loaded record lists stale or duplicate identifiers.  Violated: a record with
\* more identifiers than the catalog has exercises gives filled > 30
ProgressBarInBounds ==
    (last_return.op = "render" /\ last_return.view = "main") =>
        LET bar == Unwrap(last_return.bar)
        IN  /\ bar.filled = (Len(last_return.before.completed) * 30) \div Len(exercises)
            /\ bar.filled \in 0..30
            /\ bar.empty = 30 - bar.filled
            /\ bar.empty \in 0..30
            /\ ~bar.panic

\* What the code does keep (supporting C35): the bar is in bounds whenever the
\* record lists no more identifiers than the catalog has exercises
ProgressBarInBoundsIfShort ==
    (/\ last_return.op = "render" /\ last_return.view = "main"
     /\ Len(last_return.before.completed) <= Len(exercises)) =>
        LET bar == Unwrap(last_return.bar)
        IN  /\ bar.filled = (Len(last_return.before.completed) * 30) \div Len(exercises)
            /\ bar.filled \in 0..30
            /\ bar.empty = 30 - bar.filled
            /\ ~bar.panic

\* C36: at most one Run is outstanding at any time: the Loop sends no Run,
\* from the debounce path or from Rerun, while the Result of an earlier Run has
\* not been taken off the worker's channel; the request queue never holds more
\* than one Run; and while the loop runs, `verifying` false means that no Run is
\* outstanding
AtMostOneRunOutstanding ==
    /\ Outstanding <= 1
    /\ Count(verify_ch, IsRun) <= 1
    /\ (LoopRunning /\ ~verifying) => Outstanding = 0

\* C36: a Run is outstanding while a save of the current exercise is pending
\* and the debounce time has passed: the trigger is withheld
TriggerWithheld ==
    /\ loop_pc = "poll_key"
    /\ verifying
    /\ Outstanding = 1
    /\ pending_verify
    /\ ready_to_trigger(debouncer)

\* The debounce path sends a Run in this step
TriggerSends ==
    /\ loop_pc = "watch_events"
    /\ LoopTrigger
    /\ verify_ch' # verify_ch

\* The Loop takes a FileChanged for another path than the current exercise's
\* off the watcher's channel
OtherFileChanged ==
    /\ LoopRecvWatch
    /\ Head(watch_ch).type = "FileChanged"
    /\ Head(watch_ch).path # current_exercise.path

\* C37: a Run sent by the debounce path is for an exercise whose own file
\* changed: a FileChanged for another path than the current exercise's sets
\* neither pending_verify nor the debouncer, and a pending verification
\* recorded for one exercise is never fired as a Run for another after Next or
\* Prev.  Violated: Next and Prev leave pending_verify and the debouncer as
\* they are, and the trigger sends Run for whatever exercise is current then
DebounceRunIsForChangedFile ==
    [][/\ OtherFileChanged => UNCHANGED <<pending_verify, debouncer>>
       /\ TriggerSends => pending_for = current_exercise.name]_vars

\* What the code does keep (supporting C37): a FileChanged for another path
\* sets neither pending_verify nor the debouncer
OtherFileIsIgnored ==
    [][OtherFileChanged => UNCHANGED <<pending_verify, debouncer>>]_vars

\* C38: the output ring only ever holds lines of the most recent Run for the
\* current exercise: after Next or Prev has cleared the ring, lines of a run
\* started for the previous exercise are not pushed into it.  Violated: an
\* Output message names no exercise and the Loop pushes every line it receives
RingHoldsCurrentExerciseOnly ==
    LoopRunning =>
        \A i \in 1..Len(output_buffer) :
            output_buffer[i].exercise = current_exercise.name

\* What the code does keep (supporting C38): Next and Prev leave the ring empty
NavigationClearsRing ==
    [][(loop_pc = "poll_key" /\ loop_pc' = "worker_msgs" /\ (LoopNext \/ LoopPrev))
          => output_buffer' = <<>>]_vars

\* C39: while the loop runs, last_verify, when present, is a result of the
\* current exercise, and it is never present while `verifying` is true; so the
\* status band shows Running, the current exercise's Passed or Failed, or Ready
LastVerifyIsCurrent ==
    (LoopRunning /\ IsSome(last_verify)) =>
        /\ Unwrap(last_verify).exercise_name = current_exercise.name
        /\ ~verifying

\* C39: the result of the second exercise is shown, the learner having moved
\* there and run it
SecondExerciseResultShown ==
    /\ LoopRunning
    /\ current_index = 1
    /\ IsSome(last_verify)
    /\ Unwrap(last_verify).exercise_name = exercises[2].name
    /\ ~verifying

\* The executions of the learner script a Result's run has started: the
\* streamed child, and the child of run_python_capture
Executions(m) ==
    (IF m.calls.spawned THEN 1 ELSE 0)
        + (IF m.calls.capture \in {"exit_ok", "exit_failed"} THEN 1 ELSE 0)

\* C40: each Run executes the learner script once, in simple and in full mode
\* alike: between taking the Run and sending its Result the worker starts the
\* script one time, and the Result rests on the exit status of that execution,
\* whose output was streamed.  Violated: in full mode, after a streamed
\* execution that succeeded, verify_exercise executes the script again and
\* takes the exit status of the second execution
ScriptRunsOncePerRun ==
    \A m \in Results :
        /\ Executions(m) <= 1
        /\ m.calls.capture = "none"
        /\ m.result.python_exit_ok = ChildSucceeded(m.run)

\* What the code does keep (supporting C40): in simple mode, and in full mode
\* after a streamed execution that failed, the script is executed once and the
\* Result has its exit status
ScriptRunsOnceUnlessChecked ==
    \A m \in Results :
        (simple_mode \/ ~ChildSucceeded(m.run)) =>
            /\ Executions(m) <= 1
            /\ m.calls.capture = "none"
            /\ m.result.python_exit_ok = ChildSucceeded(m.run)

\* ------------------------------------------------- claims on AppState
\* C11: the catalog is never empty and the current index always names one of
\* its exercises: after a load of any progress record, after a jump by
\* `--exercise`, and after any sequence of Next and Prev.
CurrentIndexInCatalog ==
    /\ Len(exercises) >= 1
    /\ current_index \in 0..(Len(exercises) - 1)

\* Next was called at the last exercise, and a stale `current` was loaded with
\* every exercise completed
NextAtLastExercise ==
    /\ loop_pc = "client"
    /\ last_return.op = "next"
    /\ last_return.index = Len(exercises) - 1
    /\ progress.current = Some(StaleId)
    /\ \A n \in Names : is_completed(progress, n)

\* The names a `completed` list holds
Listed(p) == {p.completed[k] : k \in 1..Len(p.completed)}

\* C14: mark_completed on an exercise that is already in `completed` changes
\* nothing; on any other it appends the name at the end of `completed` and
\* changes nothing else.
MarkCompletedIdempotent ==
    last_return.op = "mark_completed" =>
        IF last_return.name \in Listed(last_return.before)
        THEN progress = last_return.before
        ELSE /\ progress.completed = last_return.before.completed \o <<last_return.name>>
             /\ [progress EXCEPT !.completed = last_return.before.completed]
                    = last_return.before

\* C14 witness: the last call marked an exercise that was already completed
MarkedTwice ==
    /\ last_return.op = "mark_completed"
    /\ last_return.name \in Listed(last_return.before)
    /\ Len(progress.completed) = 1

\* C15: a load after a successful save yields the in-memory record as of the
\* save, field by field: version, completed in the same order, current,
\* hints_used, started_at and last_activity.
SaveThenLoadIsSameRecord ==
    (last_return.op = "save_progress" /\ last_return.ok) =>
        /\ load_progress(disk).ok
        /\ load_progress(disk).value.version = progress.version
        /\ load_progress(disk).value.completed = progress.completed
        /\ load_progress(disk).value.current = progress.current
        /\ load_progress(disk).value.hints_used = progress.hints_used
        /\ load_progress(disk).value.started_at = progress.started_at
        /\ load_progress(disk).value.last_activity = progress.last_activity

\* C15 witness: a record with two completed exercises, a hint taken, no start
\* time and a current exercise has been saved
SavedFullRecord ==
    /\ last_return.op = "save_progress"
    /\ last_return.ok
    /\ progress.completed = <<exercises[2].name, exercises[1].name>>
    /\ progress.hints_used[exercises[1].name] = 1
    /\ progress.started_at = None
    /\ progress.current = Some(exercises[2].name)
    /\ progress.last_activity = Some(now_iso)

\* C16: the progress file is never a partial write: after a save that went
\* through it holds the whole new content, after one that stopped at any point
\* it is what it was before (or still absent); and a load takes the record
\* from the progress file only, whatever the temp file holds.
SaveIsAtomic ==
    /\ IsSome(disk.canonical) => Unwrap(disk.canonical).whole
    /\ last_return.op = "save_progress" =>
          IF last_return.ok
          THEN disk.canonical = Some(WholeFile(progress))
          ELSE disk.canonical = last_return.before.canonical
    /\ last_return.op = "load" =>
          progress = IF IsSome(disk.canonical)
                     THEN from_json(Unwrap(disk.canonical)).value
                     ELSE ProgressFile_new

\* C16 witness: a save stopped while the temp file was being written, and the
\* next launch has loaded the older progress file
LoadedBesidePartialTemp ==
    /\ last_return.op = "load"
    /\ IsSome(disk.tmp)
    /\ ~Unwrap(disk.tmp).whole
    /\ IsSome(disk.canonical)
    /\ Unwrap(disk.canonical).data # Unwrap(disk.tmp).data
====
